---------------------------- MODULE Spec2Model ----------------------------
(***************************************************************************)
(* Meckano Time Tracker Helper: the content script that opens the          *)
(* free-reporting dialog, polls until it is rendered, fills the empty time *)
(* inputs of working days and submits the form.                            *)
(*                                                                         *)
(* Text is modelled as a sequence of tokens.  A token is one character or  *)
(* one run of characters that the code never looks inside:                 *)
(*   "sp"    one white-space character                                     *)
(*   "chag"  the holiday word (het, gimel)                                 *)
(*   "erev"  the eve word (ayin, resh, bet)                                *)
(*   "x"     any other character                                           *)
(*   "alef" "bet" "vav" "shin" ...   one Hebrew weekday letter             *)
(*   "25/08/2025" ...  a run DD/MM/YYYY of digits and slashes              *)
(* An input's value is a sequence of single characters.  An element of the *)
(* document is a record: [text |-> t] a cell or span, [value |-> v] an      *)
(* input or select, NoElement where the selector finds nothing.            *)
(***************************************************************************)
EXTENDS Integers, Sequences, FiniteSets, TLC

\* null, a missing element and a thrown exception are records of their own
Null == [null |-> TRUE]
NoElement == [absent |-> TRUE]
Throws == [throws |-> TRUE]
\* the value undefined, where a string is expected
Undefined == "undefined"

\* Bounds of the model
MaxTextLen == 3   \* tokens in a special-day annotation
MaxRows == 2      \* data rows in the table
MaxRuns == 2      \* successive calls of fillTimeInputs
MaxAttempts == 5  \* the largest configured number of waitForDialog attempts
MaxCalls == 2     \* successive calls of getTimeData on one provider
MaxRequests == 2  \* fillHours messages whose handling overlaps
MaxClicks == 2    \* clicks on the popup's Fill button

-----------------------------------------------------------------------------
(* String primitives of the JavaScript runtime, on token sequences.        *)

IsSpace(c) == c = "sp" \/ c = " "

RECURSIVE TrimStart(_)
TrimStart(s) ==
    IF s = <<>> THEN <<>>
    ELSE IF IsSpace(Head(s)) THEN TrimStart(Tail(s)) ELSE s

RECURSIVE TrimEnd(_)
TrimEnd(s) ==
    IF s = <<>> THEN <<>>
    ELSE IF IsSpace(s[Len(s)]) THEN TrimEnd(SubSeq(s, 1, Len(s) - 1)) ELSE s

\* String.prototype.trim
Trim(s) == TrimEnd(TrimStart(s))

\* String.prototype.includes: pat occurs in s as a contiguous run
Includes(s, pat) ==
    \E k \in 0..(Len(s) - Len(pat)) : SubSeq(s, k + 1, k + Len(pat)) = pat

-----------------------------------------------------------------------------
(* Tokens of the skip rules.                                               *)

HolidayToken == <<"chag">>
EveWord == <<"erev">>
HolidayEveToken == <<"erev", "sp", "chag">>

HebrewLetters == {"alef", "bet", "gimel", "dalet", "he", "vav", "shin"}
DateChunks == {"25/08/2025", "26/08/2025"}

-----------------------------------------------------------------------------
(* FormManager.parseDateRow                                                *)

\* position of the first token at or after k that is not white space
RECURSIVE SkipSpaces(_, _)
SkipSpaces(s, k) ==
    IF k <= Len(s) /\ IsSpace(s[k]) THEN SkipSpaces(s, k + 1) ELSE k

\* the regular expression /(\d{2}\/\d{2}\/\d{4})\s*([alef-tav])/ matches at p
MatchesAt(s, p) ==
    /\ s[p] \in DateChunks
    /\ LET q == SkipSpaces(s, p + 1)
       IN  q <= Len(s) /\ s[q] \in HebrewLetters

\* String.prototype.match: the leftmost match, or Null
DateMatch(s) ==
    LET ps == {p \in 1..Len(s) : MatchesAt(s, p)}
    IN  IF ps = {} THEN Null
        ELSE LET p == CHOOSE p \in ps : \A r \in ps : p <= r
             IN  [date |-> s[p], hebrewDay |-> s[SkipSpaces(s, p + 1)]]

parseDateRow(row) ==
    IF row.dateCell = NoElement THEN Null
    ELSE LET fullDateText == Trim(row.dateCell.text)
             match == DateMatch(fullDateText)
         IN  IF match = Null THEN Null
             ELSE [date |-> match.date,
                   hebrewDay |-> match.hebrewDay,
                   specialText |-> IF row.special = NoElement THEN <<>>
                                   ELSE Trim(row.special.text),
                   missingEventValue |-> IF row.missing = NoElement THEN "0"
                                         ELSE row.missing.value]

-----------------------------------------------------------------------------
(* FormManager.shouldSkipDate: whether to skip, and dateInfo.skipReason.   *)

\* a non-empty string is truthy; undefined, null and the empty string are not
Truthy(v) == v \notin {Undefined, ""}

\* skipRules[code] of a plain object: Undefined for a key it does not have
Lookup(skipRules, code) ==
    IF code \in DOMAIN skipRules THEN skipRules[code] ELSE Undefined

Skip(reason) == [skip |-> TRUE, skipReason |-> reason]
Work == [skip |-> FALSE]

WeekendReason(hebrewDay) ==
    Skip(IF hebrewDay = "vav" THEN "Weekend (Friday)" ELSE "Weekend (Saturday)")

shouldSkipDate_NoEveGuard(dateInfo, skipRules) ==
    IF dateInfo.hebrewDay = "vav" \/ dateInfo.hebrewDay = "shin"
    THEN WeekendReason(dateInfo.hebrewDay)
    ELSE IF Includes(dateInfo.specialText, HolidayToken)
    THEN Skip("Holiday")
    ELSE IF Includes(dateInfo.specialText, HolidayEveToken)
    THEN Skip("Holiday Eve")
    ELSE IF Truthy(Lookup(skipRules, dateInfo.missingEventValue))
    THEN Skip(Lookup(skipRules, dateInfo.missingEventValue))
    ELSE Work

shouldSkipDate_AbsenceFirst(dateInfo, skipRules) ==
    IF Truthy(Lookup(skipRules, dateInfo.missingEventValue))
    THEN Skip(Lookup(skipRules, dateInfo.missingEventValue))
    ELSE IF dateInfo.hebrewDay = "vav" \/ dateInfo.hebrewDay = "shin"
    THEN WeekendReason(dateInfo.hebrewDay)
    ELSE IF /\ Includes(dateInfo.specialText, HolidayToken)
            /\ ~Includes(dateInfo.specialText, EveWord)
    THEN Skip("Holiday")
    ELSE IF Includes(dateInfo.specialText, HolidayEveToken)
    THEN Skip("Holiday Eve")
    ELSE Work

shouldSkipDate(dateInfo, skipRules) ==
    IF dateInfo.hebrewDay = "vav" \/ dateInfo.hebrewDay = "shin"
    THEN WeekendReason(dateInfo.hebrewDay)
    ELSE IF /\ Includes(dateInfo.specialText, HolidayToken)
            /\ ~Includes(dateInfo.specialText, EveWord)
    THEN Skip("Holiday")
    ELSE IF Includes(dateInfo.specialText, HolidayEveToken)
    THEN Skip("Holiday Eve")
    ELSE IF Truthy(Lookup(skipRules, dateInfo.missingEventValue))
    THEN Skip(Lookup(skipRules, dateInfo.missingEventValue))
    ELSE Work

\* the legacy content script has no absence rule
legacyShouldSkipDate(dateInfo) ==
    IF dateInfo.hebrewDay = "vav" \/ dateInfo.hebrewDay = "shin"
    THEN WeekendReason(dateInfo.hebrewDay)
    ELSE IF /\ Includes(dateInfo.specialText, HolidayToken)
            /\ ~Includes(dateInfo.specialText, EveWord)
    THEN Skip("Holiday")
    ELSE IF Includes(dateInfo.specialText, HolidayEveToken)
    THEN Skip("Holiday Eve")
    ELSE Work

-----------------------------------------------------------------------------
(* Config.get(key, defaultValue): this.#config[key] ?? defaultValue.  An   *)
(* object is a record; a key it does not have is not in its DOMAIN.        *)

Has(obj, key) == key \in DOMAIN obj
Get(obj, key, defaultValue) == IF Has(obj, key) THEN obj[key] ELSE defaultValue

EmptyObject == [k \in {} |-> 0]

skipRulesOf(cfg) == Get(cfg, "MISSING_EVENT_SKIP_RULES", EmptyObject)

-----------------------------------------------------------------------------
(* FormManager.isInputFilled, isRowComplete                                *)

isRowComplete_InputsNotFound(row) == FALSE

isInputFilled(input) == input # NoElement /\ Trim(input.value) # <<>>

isRowComplete(row) == isInputFilled(row.checkIn) /\ isInputFilled(row.checkOut)

-----------------------------------------------------------------------------
(* ConstantDataProvider                                                    *)

Digits == <<"0", "1", "2", "3", "4", "5", "6", "7", "8", "9">>

DigitValue(c) == CHOOSE d \in 0..9 : Digits[d + 1] = c

\* Number(s) for a run of decimal digits
RECURSIVE Number(_)
Number(s) ==
    IF s = <<>> THEN 0
    ELSE 10 * Number(SubSeq(s, 1, Len(s) - 1)) + DigitValue(s[Len(s)])

\* String(n) for n >= 0
RECURSIVE String(_)
String(n) ==
    IF n < 10 THEN <<Digits[n + 1]>>
    ELSE String(n \div 10) \o <<Digits[(n % 10) + 1]>>

\* String.prototype.padStart(2, '0')
PadStart2(s) == IF Len(s) < 2 THEN <<"0">> \o s ELSE s

\* the first two parts of timeString.split(':')
SplitColon(s) ==
    LET ks == {k \in 1..Len(s) : s[k] = ":"}
        k1 == CHOOSE k \in ks : \A r \in ks : k <= r
        rest == SubSeq(s, k1 + 1, Len(s))
        ks2 == {k \in 1..Len(rest) : rest[k] = ":"}
    IN  <<SubSeq(s, 1, k1 - 1),
          IF ks2 = {} THEN rest
          ELSE SubSeq(rest, 1, (CHOOSE k \in ks2 : \A r \in ks2 : k <= r) - 1)>>

Min(a, b) == IF a < b THEN a ELSE b
Max(a, b) == IF a > b THEN a ELSE b

FormatTime(totalMinutes) ==
    PadStart2(String(totalMinutes \div 60)) \o <<":">>
        \o PadStart2(String(totalMinutes % 60))

\* Math.floor(Math.random() * 41) - 20
MaxVariation == 20
Variations_Wider == (0 - MaxVariation - 10)..(MaxVariation + 10)

Variations == (0 - MaxVariation)..MaxVariation

addRandomVariation_Wraps(timeString, variation) ==
    LET parts == SplitColon(timeString)
        totalMinutes == Number(parts[1]) * 60 + Number(parts[2])
    IN  FormatTime((totalMinutes + variation) % 1440)

addRandomVariation(timeString, variation) ==
    LET parts == SplitColon(timeString)
        totalMinutes == Number(parts[1]) * 60 + Number(parts[2])
        newTotalMinutes == Max(0, Min(1439, totalMinutes + variation))
    IN  FormatTime(newTotalMinutes)

\* the results a call of dataProvider.getTimeData(date) can have
getTimeData(provider) ==
    IF provider.kind = "abstract" THEN {Throws}
    ELSE IF provider.kind = "none" THEN {Null}
    ELSE IF ~provider.humanize
    THEN {[checkin |-> provider.checkinTime, checkout |-> provider.checkoutTime]}
    ELSE {[checkin |-> addRandomVariation(provider.checkinTime, v1),
           checkout |-> addRandomVariation(provider.checkoutTime, v2)] :
              v1 \in Variations, v2 \in Variations}

-----------------------------------------------------------------------------
(* State.                                                                 *)

VARIABLES
    config,        \* the configuration object read through config.get
    trigger,       \* host document: a.export.free-reporting.popup-container
    dialog,        \* host document: #freeReporting-dialog
    view,          \* host document: .attendance-view inside the dialog
    table,         \* host document: .hours-report and where it is
    submit,        \* host document: the submit control inside the dialog
    rows,          \* host document: the data rows of the table
    rows0,         \* the data rows as they were before the first pass
    impl,          \* "modular" (src/content) or "legacy" (monolithic script)
    pc,            \* where the content script is
    dataProvider,  \* the dataProvider the fill pass is called with
    i,             \* fillTimeInputs: index of the row being processed
    timeData,      \* fillTimeInputs: timeData of the row being filled
    filledCount,   \* fillTimeInputs: filledCount
    skippedCount,  \* fillTimeInputs: skippedCount
    errorCount,    \* fillTimeInputs: errorCount
    log,           \* fillTimeInputs: what was logged for each processed row
    fillResult,    \* the object fillTimeInputs returned
    run,           \* how many times fillTimeInputs has been called
    prev,          \* result and log of the previous fillTimeInputs call
    events,        \* host document: the events dispatched on inputs, in order
    calls,         \* the rows for which getTimeData was called, in order
    classified,    \* outcome of parseDateRow and shouldSkipDate on one row
    sample,        \* what the provider was configured with and last returned
    pending,       \* the calls of fillWorkingHours that overlap, one record each
    popup,         \* popup document: the inputs, the Fill button, the status
    popupCalls,    \* popup: the calls of fillHours, one record each
    ctorCheck,     \* popup: the constructor's checkTabCompatibility call
    tab,           \* the active tab chrome.tabs.query resolves with
    sent,          \* the messages chrome.tabs.sendMessage was given, in order
    glitch,        \* host document: the readiness check that throws (0: none)
    triggerClicks, \* host document: clicks received by the trigger
    submitClicks,  \* host document: clicks received by the submit control
    request,       \* the message the listener received
    stages,        \* the stages fillWorkingHours has called, in order
    openResult,    \* the object openDialog returned
    attempt,       \* waitForDialog: attempt
    waitSleeps,    \* waitForDialog: sleeps begun
    waitLog,       \* waitForDialog: what the last attempt logged
    waitResult,    \* the object waitForDialog returned
    closeAttempt,  \* waitForDialogClose: attempt
    closeSleeps,   \* waitForDialogClose: sleeps begun
    closeResult,   \* the object waitForDialogClose returned
    submitResult,  \* the object submitForm returned
    responses,     \* the objects passed to sendResponse, in order
    waitArgs,      \* the arguments waitForDialog was called with
    waitSlept,     \* waitForDialog: milliseconds slept
    failedAttempts, \* waitForDialog: attempts that ended without ready
    fwhResult      \* the object fillWorkingHours resolved with

docVars == <<trigger, dialog, view, table, submit, rows, rows0>>
fillVars == <<i, timeData, filledCount, skippedCount, errorCount, log,
              fillResult, run, prev, events, calls>>
hostVars == <<glitch, triggerClicks, submitClicks>>
openVars == <<openResult>>
waitVars == <<attempt, waitSleeps, waitSlept, failedAttempts, waitLog,
              waitResult, waitArgs>>
submitVars == <<closeAttempt, closeSleeps, closeResult, submitResult>>
pipeVars == <<hostVars, request, stages, openVars, waitVars, submitVars,
              responses, fwhResult>>
popupVars == <<popup, popupCalls, ctorCheck, tab, sent>>
harnessVars == <<classified, sample, pending, popupVars>>
vars == <<config, docVars, impl, pc, dataProvider, fillVars, harnessVars,
          pipeVars>>

-----------------------------------------------------------------------------
(* FormManager.fillRowInputs                                               *)

\* lines 253-262: fill checkin time only if empty
FillCheckin_Overwrite(row, td) == [row EXCEPT !.checkIn = [value |-> td.checkin]]

FillCheckin(row, td) ==
    IF ~isInputFilled(row.checkIn)
    THEN [row EXCEPT !.checkIn = [value |-> td.checkin]]
    ELSE row

FillCheckout_Swapped(row, td) ==
    IF ~isInputFilled(row.checkOut)
    THEN [row EXCEPT !.checkOut = [value |-> td.checkin]]
    ELSE row

\* lines 264-270: fill checkout time only if empty
FillCheckout(row, td) ==
    IF ~isInputFilled(row.checkOut)
    THEN [row EXCEPT !.checkOut = [value |-> td.checkout]]
    ELSE row

\* dispatchEvent(new Event(type, { bubbles: true })) on a field of row r; the
\* event carries the value a listener reads from the field
Event(r, field, type, value) ==
    [row |-> r, field |-> field, type |-> type, bubbles |-> TRUE,
     value |-> value]

Dispatched_ChangeFirst(r, field, value) ==
    <<Event(r, field, "change", value), Event(r, field, "input", value)>>

\* lines 255-256 and 266-267: 'input', then 'change'
Dispatched(r, field, value) ==
    <<Event(r, field, "input", value), Event(r, field, "change", value)>>

CheckinEvents(r, row, td) ==
    IF ~isInputFilled(row.checkIn) THEN Dispatched(r, "checkIn", td.checkin)
    ELSE <<>>

CheckoutEvents(r, row, td) ==
    IF ~isInputFilled(row.checkOut) THEN Dispatched(r, "checkOut", td.checkout)
    ELSE <<>>

-----------------------------------------------------------------------------
(* FormManager.fillTimeInputs                                              *)

NoResult == [pending |-> TRUE]

SkipDecision(dateInfo) ==
    IF impl = "legacy" THEN legacyShouldSkipDate(dateInfo)
    ELSE shouldSkipDate(dateInfo, skipRulesOf(config))

\* lines 25-43: find the dialog, the table and the rows; reset the counters
FillStart ==
    /\ pc = "fill_call"
    /\ IF dialog = NoElement
       THEN /\ fillResult' = [success |-> FALSE, error |-> "Dialog not found"]
            /\ pc' = "fill_return"
       ELSE IF table = NoElement
       THEN /\ fillResult' = [success |-> FALSE,
                              error |-> "Time table not found in dialog"]
            /\ pc' = "fill_return"
       ELSE /\ fillResult' = NoResult
            /\ pc' = "fill_loop"
    /\ i' = 1
    /\ filledCount' = 0
    /\ skippedCount' = 0
    /\ errorCount' = 0
    /\ log' = <<>>
    /\ timeData' = Null
    /\ UNCHANGED <<config, docVars, impl, dataProvider, run, prev, harnessVars, pipeVars,
                   events, calls>>

\* the logger's line for row i
Logged(entry) == Append(log, [row |-> i, outcome |-> entry])

NextRow(entry) ==
    /\ i' = i + 1
    /\ log' = Logged(entry)
    /\ pc' = "fill_loop"

\* lines 48-53: the row has no date
RowNoDate ==
    /\ pc = "fill_loop" /\ i <= Len(rows)
    /\ parseDateRow(rows[i]) = Null
    /\ skippedCount' = skippedCount + 1
    /\ NextRow("no-date")
    /\ UNCHANGED <<config, docVars, impl, dataProvider, timeData, filledCount,
                   errorCount, fillResult, run, prev, harnessVars, pipeVars,
                   events, calls>>

RowSkipDate_Fills ==
    /\ pc = "fill_loop" /\ i <= Len(rows)
    /\ parseDateRow(rows[i]) # Null
    /\ SkipDecision(parseDateRow(rows[i])).skip
    /\ skippedCount' = skippedCount + 1
    /\ NextRow("skip")
    /\ rows' = [rows EXCEPT ![i].checkIn =
                  IF @ = NoElement THEN @ ELSE [value |-> <<"0">>]]
    /\ UNCHANGED <<config, trigger, dialog, view, table, submit, rows0, impl,
                   dataProvider, timeData, filledCount, errorCount, fillResult,
                   run, prev, harnessVars, pipeVars, events, calls>>

\* lines 58-62: not a working day
RowSkipDate ==
    /\ pc = "fill_loop" /\ i <= Len(rows)
    /\ parseDateRow(rows[i]) # Null
    /\ SkipDecision(parseDateRow(rows[i])).skip
    /\ skippedCount' = skippedCount + 1
    /\ NextRow("skip")
    /\ UNCHANGED <<config, docVars, impl, dataProvider, timeData, filledCount,
                   errorCount, fillResult, run, prev, harnessVars, pipeVars,
                   events, calls>>

WorkingRow ==
    /\ pc = "fill_loop" /\ i <= Len(rows)
    /\ parseDateRow(rows[i]) # Null
    /\ ~SkipDecision(parseDateRow(rows[i])).skip

RowComplete_LegacyAborts ==
    /\ WorkingRow
    /\ isRowComplete(rows[i])
    /\ IF impl = "legacy"
       THEN /\ fillResult' = [success |-> FALSE, error |-> "Form filling failed"]
            /\ pc' = "fill_return"
            /\ UNCHANGED <<i, log, skippedCount>>
       ELSE /\ skippedCount' = skippedCount + 1
            /\ NextRow("complete")
            /\ UNCHANGED fillResult
    /\ UNCHANGED <<config, docVars, impl, dataProvider, timeData, filledCount,
                   errorCount, run, prev, harnessVars, pipeVars, events, calls>>

RowComplete_CountsFilled ==
    /\ WorkingRow
    /\ isRowComplete(rows[i])
    /\ filledCount' = filledCount + 1
    /\ NextRow("filled")
    /\ UNCHANGED <<config, docVars, impl, dataProvider, timeData, skippedCount,
                   errorCount, fillResult, run, prev, harnessVars, pipeVars,
                   events, calls>>

RowComplete_CountsNothing ==
    /\ WorkingRow
    /\ isRowComplete(rows[i])
    /\ NextRow("complete")
    /\ UNCHANGED <<config, docVars, impl, dataProvider, timeData, filledCount,
                   skippedCount, errorCount, fillResult, run, prev,
                   harnessVars, pipeVars, events, calls>>

\* lines 65-69: the row is already complete.  The legacy script increments
\* alreadyFilledCount, which is not declared: the ReferenceError is caught by
\* the row's catch, which counts an error.
RowComplete ==
    /\ WorkingRow
    /\ isRowComplete(rows[i])
    /\ IF impl = "legacy"
       THEN /\ errorCount' = errorCount + 1
            /\ NextRow("error")
            /\ UNCHANGED skippedCount
       ELSE /\ skippedCount' = skippedCount + 1
            /\ NextRow("complete")
            /\ UNCHANGED errorCount
    /\ UNCHANGED <<config, docVars, impl, dataProvider, timeData, filledCount,
                   fillResult, run, prev, harnessVars, pipeVars,
                   events, calls>>

RowNoData_Abort ==
    /\ pc = "fill_loop" /\ i <= Len(rows)
    /\ parseDateRow(rows[i]) # Null
    /\ ~SkipDecision(parseDateRow(rows[i])).skip
    /\ ~isRowComplete(rows[i])
    /\ \E td \in getTimeData(dataProvider) : td \in {Null, Throws}
    /\ fillResult' = [success |-> FALSE, error |-> "Form filling failed"]
    /\ pc' = "fill_return"
    /\ UNCHANGED <<config, docVars, impl, dataProvider, i, timeData,
                   filledCount, skippedCount, errorCount, log, run, prev,
                   harnessVars, pipeVars,
                   events, calls>>

RowNoData_CountsSkipped ==
    /\ WorkingRow
    /\ ~isRowComplete(rows[i])
    /\ \E td \in getTimeData(dataProvider) :
          /\ td \in {Null, Throws}
          /\ NextRow(IF td = Null THEN "no-data" ELSE "error")
    /\ skippedCount' = skippedCount + 1
    /\ calls' = Append(calls, i)
    /\ UNCHANGED <<config, docVars, impl, dataProvider, timeData, filledCount,
                   errorCount, fillResult, run, prev, harnessVars, pipeVars,
                   events>>

\* lines 72-77 and 92-95: getTimeData returns nothing, or throws
RowNoData ==
    /\ WorkingRow
    /\ ~isRowComplete(rows[i])
    /\ \E td \in getTimeData(dataProvider) :
          /\ td \in {Null, Throws}
          /\ NextRow(IF td = Null THEN "no-data" ELSE "error")
    /\ errorCount' = errorCount + 1
    /\ calls' = Append(calls, i)
    /\ UNCHANGED <<config, docVars, impl, dataProvider, timeData, filledCount,
                   skippedCount, fillResult, run, prev, harnessVars, pipeVars,
                   events>>

\* lines 80 and 241-249: fillRowInputs finds an input missing
RowMissingInput ==
    /\ WorkingRow
    /\ ~isRowComplete(rows[i])
    /\ \E td \in getTimeData(dataProvider) : td \notin {Null, Throws}
    /\ rows[i].checkIn = NoElement \/ rows[i].checkOut = NoElement
    /\ errorCount' = errorCount + 1
    /\ log' = Logged("failed")
    /\ pc' = "fill_sleep100"
    /\ calls' = Append(calls, i)
    /\ UNCHANGED <<config, docVars, impl, dataProvider, i, timeData,
                   filledCount, skippedCount, fillResult, run, prev, harnessVars, pipeVars,
                   events>>

\* lines 80 and 253-261: the checkin input is empty; it is written and
\* fillRowInputs sleeps 50 ms
RowFillCheckin ==
    /\ WorkingRow
    /\ ~isRowComplete(rows[i])
    /\ rows[i].checkIn # NoElement /\ rows[i].checkOut # NoElement
    /\ ~isInputFilled(rows[i].checkIn)
    /\ \E td \in getTimeData(dataProvider) :
          /\ td \notin {Null, Throws}
          /\ timeData' = td
          /\ events' = events \o CheckinEvents(i, rows[i], td)
          /\ rows' = [rows EXCEPT ![i] = FillCheckin(rows[i], td)]
    /\ pc' = "fill_sleep50"
    /\ calls' = Append(calls, i)
    /\ UNCHANGED <<config, trigger, dialog, view, table, submit, rows0, impl,
                   dataProvider, i, filledCount, skippedCount, errorCount, log,
                   fillResult, run, prev, harnessVars, pipeVars>>

RowFillCheckoutAfterSleep_StaleCheck ==
    /\ pc = "fill_sleep50"
    /\ rows' = [rows EXCEPT ![i] =
                  IF ~isInputFilled(rows0[i].checkOut)
                  THEN [@ EXCEPT !.checkOut = [value |-> timeData.checkout]]
                  ELSE @]
    /\ events' = events \o CheckoutEvents(i, rows0[i], timeData)
    /\ filledCount' = filledCount + 1
    /\ log' = Logged("filled")
    /\ pc' = "fill_sleep100"
    /\ UNCHANGED <<config, trigger, dialog, view, table, submit, rows0, impl,
                   dataProvider, i, timeData, skippedCount, errorCount,
                   fillResult, run, prev, harnessVars, pipeVars,
                   calls>>

\* lines 264-276 and 81-83, after the 50 ms sleep
RowFillCheckoutAfterSleep ==
    /\ pc = "fill_sleep50"
    /\ rows' = [rows EXCEPT ![i] = FillCheckout(rows[i], timeData)]
    /\ events' = events \o CheckoutEvents(i, rows[i], timeData)
    /\ filledCount' = filledCount + 1
    /\ log' = Logged("filled")
    /\ pc' = "fill_sleep100"
    /\ UNCHANGED <<config, trigger, dialog, view, table, submit, rows0, impl,
                   dataProvider, i, timeData, skippedCount, errorCount,
                   fillResult, run, prev, harnessVars, pipeVars,
                   calls>>

\* lines 80, 264-276 and 81-83: the checkin input is filled already, only
\* the checkout input is written
RowFillCheckoutOnly ==
    /\ WorkingRow
    /\ ~isRowComplete(rows[i])
    /\ rows[i].checkIn # NoElement /\ rows[i].checkOut # NoElement
    /\ isInputFilled(rows[i].checkIn)
    /\ \E td \in getTimeData(dataProvider) :
          /\ td \notin {Null, Throws}
          /\ timeData' = td
          /\ events' = events \o CheckoutEvents(i, rows[i], td)
          /\ rows' = [rows EXCEPT ![i] = FillCheckout(FillCheckin(rows[i], td), td)]
    /\ filledCount' = filledCount + 1
    /\ log' = Logged("filled")
    /\ pc' = "fill_sleep100"
    /\ calls' = Append(calls, i)
    /\ UNCHANGED <<config, trigger, dialog, view, table, submit, rows0, impl,
                   dataProvider, i, skippedCount, errorCount, fillResult, run,
                   prev, harnessVars, pipeVars>>

\* line 90: the 100 ms sleep after a row is over
RowAfterSleep ==
    /\ pc = "fill_sleep100"
    /\ i' = i + 1
    /\ pc' = "fill_loop"
    /\ UNCHANGED <<config, docVars, impl, dataProvider, timeData, filledCount,
                   skippedCount, errorCount, log, fillResult, run, prev,
                   harnessVars, pipeVars,
                   events, calls>>

\* lines 98-109: every row was processed
FillReturn ==
    /\ pc = "fill_loop" /\ i > Len(rows)
    /\ fillResult' = [success |-> TRUE,
                      details |-> [filled |-> filledCount,
                                   skipped |-> skippedCount,
                                   errors |-> errorCount]]
    /\ pc' = "fill_return"
    /\ UNCHANGED <<config, docVars, impl, dataProvider, i, timeData,
                   filledCount, skippedCount, errorCount, log, run, prev,
                   harnessVars, pipeVars,
                   events, calls>>

FillPass ==
    \/ FillStart
    \/ RowNoDate
    \/ RowSkipDate
    \/ RowComplete
    \/ RowMissingInput
    \/ RowFillCheckin
    \/ RowFillCheckoutAfterSleep
    \/ RowFillCheckoutOnly
    \/ RowAfterSleep
    \/ FillReturn

-----------------------------------------------------------------------------
(* DialogManager.isDialogOpen and the checks of one waitForDialog attempt. *)

\* an element with its inline and its computed display
Element(style, computed) == [style |-> style, computed |-> computed]
VisibleDialog == Element("block", "block")
\* the table, inside the attendance view or elsewhere in the dialog
TableIn(where) == [within |-> where]
Button(disabled) == [disabled |-> disabled]

\* dialog.style.display === 'block' || getComputedStyle(dialog).display !== 'none'
DialogVisible(el) == el.style = "block" \/ el.computed # "none"

\* attendanceView.style.display !== 'none' && getComputedStyle(...) !== 'none'
ViewVisible(el) == el.style # "none" /\ el.computed # "none"

RECURSIVE CountInputs(_)
CountInputs(rs) ==
    IF rs = <<>> THEN 0
    ELSE (IF Head(rs).checkIn # NoElement THEN 1 ELSE 0)
         + (IF Head(rs).checkOut # NoElement THEN 1 ELSE 0)
         + CountInputs(Tail(rs))

\* timeTable.querySelectorAll('input.checkIn, input.checkOut').length
TimeInputsCount == CountInputs(rows)

NumChecks == 7

\* check k of an attempt holds in the document; a check on an element that
\* an earlier check did not find is not evaluated
CheckHolds(k) ==
    CASE k = 1 -> dialog # NoElement
      [] k = 2 -> DialogVisible(dialog)
      [] k = 3 -> view # NoElement
      [] k = 4 -> ViewVisible(view)
      [] k = 5 -> table = TableIn("view")
      [] k = 6 -> TimeInputsCount # 0
      [] k = 7 -> submit # NoElement

\* the first check that does not hold, NumChecks + 1 when all hold
FirstFailing ==
    LET failing == {k \in 1..NumChecks :
                      /\ \A j \in 1..(k - 1) : CheckHolds(j)
                      /\ ~CheckHolds(k)}
    IN  IF failing = {} THEN NumChecks + 1 ELSE CHOOSE k \in failing : TRUE

\* what one attempt finds: ready, a failed check, or an exception.  Checks
\* are evaluated in order up to the first that fails; the check glitch
\* throws when it is evaluated.  isDialogOpen (checks 1 and 2) catches its
\* own exceptions and answers false.
AttemptOutcome_IgnoreSubmit ==
    IF glitch \in 1..FirstFailing
    THEN IF glitch <= 2 THEN [outcome |-> "failed", check |-> glitch]
         ELSE [outcome |-> "threw", check |-> glitch]
    ELSE IF FirstFailing >= NumChecks THEN [outcome |-> "ready"]
    ELSE [outcome |-> "failed", check |-> FirstFailing]

AttemptOutcome_AllChecks ==
    IF glitch \in 3..NumChecks THEN [outcome |-> "threw", check |-> glitch]
    ELSE IF glitch \in 1..2 THEN [outcome |-> "failed", check |-> glitch]
    ELSE IF FirstFailing > NumChecks THEN [outcome |-> "ready"]
    ELSE [outcome |-> "failed", check |-> FirstFailing]

AttemptOutcome ==
    IF glitch \in 1..FirstFailing /\ glitch <= NumChecks
    THEN IF glitch <= 2 THEN [outcome |-> "failed", check |-> glitch]
         ELSE [outcome |-> "threw", check |-> glitch]
    ELSE IF FirstFailing > NumChecks THEN [outcome |-> "ready"]
    ELSE [outcome |-> "failed", check |-> FirstFailing]

isDialogOpen == glitch \notin {1, 2} /\ dialog # NoElement /\ DialogVisible(dialog)

-----------------------------------------------------------------------------
(* DialogManager.waitForDialog                                             *)

\* legacy: waitForDialog(maxRetries = 10, delayMs = 250)
LegacyMaxRetries == 10
LegacyDelayMs == 250

\* dialogConfig = config.get('dialogManager') || {}
dialogConfig == Get(config, "dialogManager", EmptyObject)

\* maxRetries is undefined when the configuration does not give it
HasMaxRetries ==
    impl = "legacy" \/ Has(dialogConfig, "waitForDialogMaxRetries")

maxRetries ==
    IF impl = "legacy" THEN Get(waitArgs, "maxRetries", LegacyMaxRetries)
    ELSE dialogConfig.waitForDialogMaxRetries

\* sleep(undefined) is setTimeout(resolve, undefined): no delay
delayMs ==
    IF impl = "legacy" THEN Get(waitArgs, "delayMs", LegacyDelayMs)
    ELSE Get(dialogConfig, "waitForDialogDelayTime", 0)

WaitLoopGuard_Strict == HasMaxRetries /\ attempt < maxRetries

\* attempt <= maxRetries; a comparison with undefined is false
WaitLoopGuard == HasMaxRetries /\ attempt <= maxRetries

WaitStart ==
    /\ pc = "wait_call"
    /\ attempt' = 1
    /\ waitSleeps' = 0
    /\ waitSlept' = 0
    /\ failedAttempts' = 0
    /\ waitLog' = NoResult
    /\ waitResult' = NoResult
    /\ pc' = "wait_attempt"
    /\ UNCHANGED <<config, docVars, impl, dataProvider, fillVars, harnessVars,
                   hostVars, request, stages, openVars, waitArgs, submitVars,
                   responses, fwhResult>>

WaitSleep ==
    /\ waitSleeps' = waitSleeps + 1
    /\ waitSlept' = waitSlept + delayMs
    /\ pc' = "wait_sleep"

WaitReady_KeepsPassedChecks ==
    /\ pc = "wait_attempt" /\ WaitLoopGuard
    /\ \/ AttemptOutcome.outcome = "ready"
       \/ /\ waitLog = [outcome |-> "failed", check |-> NumChecks]
          /\ submit # NoElement
    /\ waitLog' = [outcome |-> "ready"]
    /\ waitResult' = [success |-> TRUE, attempts |-> attempt,
                      timeInputsCount |-> TimeInputsCount]
    /\ pc' = "wait_return"
    /\ UNCHANGED <<config, docVars, impl, dataProvider, fillVars, harnessVars,
                   hostVars, request, stages, openVars, attempt, waitSleeps,
                   waitSlept, failedAttempts, waitArgs, submitVars, responses, fwhResult>>

\* lines 526-537: all checks passed
WaitReady ==
    /\ pc = "wait_attempt" /\ WaitLoopGuard
    /\ AttemptOutcome.outcome = "ready"
    /\ waitLog' = AttemptOutcome
    /\ waitResult' = [success |-> TRUE, attempts |-> attempt,
                      timeInputsCount |-> TimeInputsCount]
    /\ pc' = "wait_return"
    /\ UNCHANGED <<config, docVars, impl, dataProvider, fillVars, harnessVars,
                   hostVars, request, stages, openVars, attempt, waitSleeps,
                   waitSlept, failedAttempts, waitArgs, submitVars, responses, fwhResult>>

\* lines 476-524: a check failed: sleep, then continue with the next attempt
WaitCheckFailed ==
    /\ pc = "wait_attempt" /\ WaitLoopGuard
    /\ AttemptOutcome.outcome = "failed"
    /\ waitLog' = AttemptOutcome
    /\ WaitSleep
    /\ failedAttempts' = failedAttempts + 1
    /\ UNCHANGED <<config, docVars, impl, dataProvider, fillVars, harnessVars,
                   hostVars, request, stages, openVars, attempt, waitResult,
                   waitArgs, submitVars, responses, fwhResult>>

WaitCheckThrew_Propagates ==
    /\ pc = "wait_attempt" /\ WaitLoopGuard
    /\ AttemptOutcome.outcome = "threw"
    /\ waitLog' = AttemptOutcome
    /\ failedAttempts' = failedAttempts + 1
    /\ waitResult' = [success |-> FALSE, error |-> "Error waiting for dialog"]
    /\ pc' = "wait_return"
    /\ UNCHANGED <<config, docVars, impl, dataProvider, fillVars, harnessVars,
                   hostVars, request, stages, openVars, attempt, waitSleeps,
                   waitSlept, waitArgs, submitVars, responses, fwhResult>>

\* lines 539-546: a check threw: sleep unless this was the last attempt
WaitCheckThrew ==
    /\ pc = "wait_attempt" /\ WaitLoopGuard
    /\ AttemptOutcome.outcome = "threw"
    /\ waitLog' = AttemptOutcome
    /\ failedAttempts' = failedAttempts + 1
    /\ IF attempt < maxRetries
       THEN WaitSleep /\ UNCHANGED attempt
       ELSE /\ attempt' = attempt + 1
            /\ UNCHANGED <<pc, waitSleeps, waitSlept>>
    /\ UNCHANGED <<config, docVars, impl, dataProvider, fillVars, harnessVars,
                   hostVars, request, stages, openVars, waitResult, waitArgs,
                   submitVars, responses, fwhResult>>

\* the sleep is over: the for loop's attempt++
WaitAfterSleep ==
    /\ pc = "wait_sleep"
    /\ attempt' = attempt + 1
    /\ pc' = "wait_attempt"
    /\ UNCHANGED <<config, docVars, impl, dataProvider, fillVars, harnessVars,
                   hostVars, request, stages, openVars, waitSleeps, waitSlept,
                   failedAttempts, waitLog, waitResult, waitArgs, submitVars,
                   responses, fwhResult>>

\* lines 549-554: all attempts failed
WaitExhausted ==
    /\ pc = "wait_attempt" /\ ~WaitLoopGuard
    /\ waitResult' = [success |-> FALSE, error |-> "Dialog not ready"]
    /\ pc' = "wait_return"
    /\ UNCHANGED <<config, docVars, impl, dataProvider, fillVars, harnessVars,
                   hostVars, request, stages, openVars, attempt, waitSleeps,
                   waitSlept, failedAttempts, waitLog, waitArgs, submitVars, responses,
                   fwhResult>>

WaitForDialog ==
    \/ WaitStart
    \/ WaitReady
    \/ WaitCheckFailed
    \/ WaitCheckThrew
    \/ WaitAfterSleep
    \/ WaitExhausted

-----------------------------------------------------------------------------
(* DialogManager.openDialog                                                *)

OpenDialog_NoDelay ==
    /\ pc = "open_call"
    /\ IF ~trigger
       THEN /\ openResult' = [success |-> FALSE,
                              error |-> "Dialog trigger element not found"]
            /\ UNCHANGED triggerClicks
       ELSE /\ triggerClicks' = triggerClicks + 1
            /\ openResult' = [success |-> TRUE]
    /\ pc' = "open_return"
    /\ UNCHANGED <<config, docVars, impl, dataProvider, fillVars, harnessVars,
                   glitch, submitClicks, request, stages, waitVars, submitVars,
                   responses, fwhResult>>

\* lines 427-444: find the trigger, click it, sleep 100 ms
OpenDialog ==
    /\ pc = "open_call"
    /\ IF ~trigger
       THEN /\ openResult' = [success |-> FALSE,
                              error |-> "Dialog trigger element not found"]
            /\ pc' = "open_return"
            /\ UNCHANGED triggerClicks
       ELSE /\ triggerClicks' = triggerClicks + 1
            /\ openResult' = NoResult
            /\ pc' = "open_sleep"
    /\ UNCHANGED <<config, docVars, impl, dataProvider, fillVars, harnessVars,
                   glitch, submitClicks, request, stages, waitVars, submitVars,
                   responses, fwhResult>>

\* lines 446-449
OpenAfterSleep ==
    /\ pc = "open_sleep"
    /\ openResult' = [success |-> TRUE]
    /\ pc' = "open_return"
    /\ UNCHANGED <<config, docVars, impl, dataProvider, fillVars, harnessVars,
                   hostVars, request, stages, waitVars, submitVars, responses,
                   fwhResult>>

-----------------------------------------------------------------------------
(* FormManager.submitForm and waitForDialogClose                           *)

\* config.get('DEFAULT_RETRY_COUNT', 15), config.get('DEFAULT_DELAY_MS', 1000)
DefaultRetryCount == 15
DefaultDelayMs == 1000
\* legacy: waitForDialogClose(10, 500)
LegacyCloseRetries == 10
LegacyCloseDelayMs == 500

closeMaxRetries ==
    IF impl = "legacy" THEN LegacyCloseRetries
    ELSE Get(config, "DEFAULT_RETRY_COUNT", DefaultRetryCount)

closeDelayMs ==
    IF impl = "legacy" THEN LegacyCloseDelayMs
    ELSE Get(config, "DEFAULT_DELAY_MS", DefaultDelayMs)

SubmitFailure(error) ==
    /\ submitResult' = [success |-> FALSE, error |-> error]
    /\ pc' = "submit_return"
    /\ UNCHANGED submitClicks

\* lines 295-324: find the dialog and the button, click it, sleep 500 ms
SubmitForm_ClickDisabled ==
    /\ pc = "submit_call"
    /\ closeAttempt' = 0
    /\ closeSleeps' = 0
    /\ closeResult' = NoResult
    /\ IF dialog = NoElement
       THEN SubmitFailure("Dialog not found for submission")
       ELSE IF submit = NoElement
       THEN SubmitFailure("Submit button not found")
       ELSE /\ submitClicks' = submitClicks + 1
            /\ submitResult' = NoResult
            /\ pc' = "submit_sleep"
    /\ UNCHANGED <<config, docVars, impl, dataProvider, fillVars, harnessVars,
                   glitch, triggerClicks, request, stages, openVars, waitVars,
                   responses, fwhResult>>

SubmitForm ==
    /\ pc = "submit_call"
    /\ closeAttempt' = 0
    /\ closeSleeps' = 0
    /\ closeResult' = NoResult
    /\ IF dialog = NoElement
       THEN SubmitFailure("Dialog not found for submission")
       ELSE IF submit = NoElement
       THEN SubmitFailure("Submit button not found")
       ELSE IF submit.disabled
       THEN SubmitFailure("Submit button is disabled")
       ELSE /\ submitClicks' = submitClicks + 1
            /\ submitResult' = NoResult
            /\ pc' = "submit_sleep"
    /\ UNCHANGED <<config, docVars, impl, dataProvider, fillVars, harnessVars,
                   glitch, triggerClicks, request, stages, openVars, waitVars,
                   responses, fwhResult>>

\* lines 326-329: the sleep is over, waitForDialogClose is called
SubmitAfterSleep ==
    /\ pc = "submit_sleep"
    /\ closeAttempt' = 1
    /\ pc' = "close_attempt"
    /\ UNCHANGED <<config, docVars, impl, dataProvider, fillVars, harnessVars,
                   hostVars, request, stages, openVars, waitVars, closeSleeps,
                   closeResult, submitResult, responses, fwhResult>>

\* window.getComputedStyle(dialog) throws in this attempt: it is evaluated
\* when the dialog is found and its style.display is not 'block'
CloseCheckThrows ==
    /\ glitch = NumChecks + 1
    /\ dialog # NoElement
    /\ dialog.style # "block"

CloseAttempt_ClosedOnError ==
    /\ pc = "close_attempt" /\ closeAttempt <= closeMaxRetries
    /\ IF dialog = NoElement
       THEN /\ closeResult' = [success |-> TRUE,
                               message |-> "Dialog removed from DOM"]
            /\ pc' = "close_return"
            /\ UNCHANGED <<closeAttempt, closeSleeps>>
       ELSE IF CloseCheckThrows \/ ~DialogVisible(dialog)
       THEN /\ closeResult' = [success |-> TRUE,
                               message |-> "Dialog hidden successfully"]
            /\ pc' = "close_return"
            /\ UNCHANGED <<closeAttempt, closeSleeps>>
       ELSE IF closeAttempt < closeMaxRetries
       THEN /\ closeSleeps' = closeSleeps + 1
            /\ pc' = "close_sleep"
            /\ UNCHANGED <<closeAttempt, closeResult>>
       ELSE /\ closeAttempt' = closeAttempt + 1
            /\ UNCHANGED <<pc, closeSleeps, closeResult>>
    /\ UNCHANGED <<config, docVars, impl, dataProvider, fillVars, harnessVars,
                   hostVars, request, stages, openVars, waitVars, submitResult,
                   responses, fwhResult>>

\* one attempt of waitForDialogClose: the dialog is gone or hidden, or the
\* check threw and the catch goes on to the next attempt, or the dialog is
\* still open and the loop sleeps unless this was the last attempt
CloseAttempt ==
    /\ pc = "close_attempt" /\ closeAttempt <= closeMaxRetries
    /\ IF dialog = NoElement
       THEN /\ closeResult' = [success |-> TRUE,
                               message |-> "Dialog removed from DOM"]
            /\ pc' = "close_return"
            /\ UNCHANGED <<closeAttempt, closeSleeps>>
       ELSE IF CloseCheckThrows
       THEN /\ closeAttempt' = closeAttempt + 1
            /\ UNCHANGED <<pc, closeSleeps, closeResult>>
       ELSE IF ~DialogVisible(dialog)
       THEN /\ closeResult' = [success |-> TRUE,
                               message |-> "Dialog hidden successfully"]
            /\ pc' = "close_return"
            /\ UNCHANGED <<closeAttempt, closeSleeps>>
       ELSE IF closeAttempt < closeMaxRetries
       THEN /\ closeSleeps' = closeSleeps + 1
            /\ pc' = "close_sleep"
            /\ UNCHANGED <<closeAttempt, closeResult>>
       ELSE /\ closeAttempt' = closeAttempt + 1
            /\ UNCHANGED <<pc, closeSleeps, closeResult>>
    /\ UNCHANGED <<config, docVars, impl, dataProvider, fillVars, harnessVars,
                   hostVars, request, stages, openVars, waitVars, submitResult,
                   responses, fwhResult>>

CloseAfterSleep_SameAttempt ==
    /\ pc = "close_sleep"
    /\ pc' = "close_attempt"
    /\ UNCHANGED <<config, docVars, impl, dataProvider, fillVars, harnessVars,
                   hostVars, request, stages, openVars, waitVars, closeAttempt,
                   closeSleeps, closeResult, submitResult, responses,
                   fwhResult>>

CloseAfterSleep ==
    /\ pc = "close_sleep"
    /\ closeAttempt' = closeAttempt + 1
    /\ pc' = "close_attempt"
    /\ UNCHANGED <<config, docVars, impl, dataProvider, fillVars, harnessVars,
                   hostVars, request, stages, openVars, waitVars, closeSleeps,
                   closeResult, submitResult, responses, fwhResult>>

\* lines 392-397: the dialog did not close
CloseExhausted ==
    /\ pc = "close_attempt" /\ closeAttempt > closeMaxRetries
    /\ closeResult' = [success |-> FALSE, error |-> "Dialog did not close"]
    /\ pc' = "close_return"
    /\ UNCHANGED <<config, docVars, impl, dataProvider, fillVars, harnessVars,
                   hostVars, request, stages, openVars, waitVars, closeAttempt,
                   closeSleeps, submitResult, responses, fwhResult>>

SubmitReturn_TimeoutFails ==
    /\ pc = "close_return"
    /\ submitResult' =
         IF closeResult.success
         THEN [success |-> TRUE,
               message |-> "Form submitted successfully and dialog closed"]
         ELSE [success |-> FALSE, error |-> "Dialog did not close"]
    /\ pc' = "submit_return"
    /\ UNCHANGED <<config, docVars, impl, dataProvider, fillVars, harnessVars,
                   hostVars, request, stages, openVars, waitVars, closeAttempt,
                   closeSleeps, closeResult, responses, fwhResult>>

\* lines 331-344: submitForm succeeds whether or not the dialog closed
SubmitReturn ==
    /\ pc = "close_return"
    /\ submitResult' =
         IF closeResult.success
         THEN [success |-> TRUE,
               message |-> "Form submitted successfully and dialog closed"]
         ELSE [success |-> TRUE,
               message |-> "Submit button clicked, but dialog remained open",
               warning |-> "Dialog did not close automatically"]
    /\ pc' = "submit_return"
    /\ UNCHANGED <<config, docVars, impl, dataProvider, fillVars, harnessVars,
                   hostVars, request, stages, openVars, waitVars, closeAttempt,
                   closeSleeps, closeResult, responses, fwhResult>>

SubmitPass ==
    \/ SubmitForm
    \/ SubmitAfterSleep
    \/ CloseAttempt
    \/ CloseAfterSleep
    \/ CloseExhausted
    \/ SubmitReturn

-----------------------------------------------------------------------------
(* MeckanoFormFiller: the message listener and fillWorkingHours            *)

\* the listener's switch on request.action
Receive(req) ==
    /\ pc = "idle"
    /\ request' = req
    /\ IF req.action = "fillHours"
       THEN pc' = "fwh_call" /\ UNCHANGED responses
       ELSE /\ pc' = "done"
            /\ responses' =
                 IF impl = "legacy" THEN responses
                 ELSE Append(responses,
                             [success |-> FALSE, error |-> "Unknown action"])
    /\ UNCHANGED <<config, docVars, impl, dataProvider, fillVars, harnessVars,
                   hostVars, stages, openVars, waitVars, submitVars, fwhResult>>

Stage(name) == stages' = Append(stages, name)

\* the stage that ended with result: its failure is the answer, its success
\* starts the next stage
AfterStage(result, next, nextpc) ==
    IF ~result.success
    THEN fwhResult' = result /\ pc' = "fwh_return" /\ UNCHANGED stages
    ELSE Stage(next) /\ pc' = nextpc /\ UNCHANGED fwhResult

\* step 1: destructuring undefined throws; otherwise the provider is made
\* and openDialog is called
FWH_Start ==
    /\ pc = "fwh_call"
    /\ IF ~Has(request, "data")
       THEN /\ fwhResult' = [success |-> FALSE, error |-> "Form filling failed"]
            /\ pc' = "fwh_return"
            /\ UNCHANGED <<dataProvider, stages>>
       ELSE /\ dataProvider' = [kind |-> "constant",
                                checkinTime |-> request.data.startTime,
                                checkoutTime |-> request.data.endTime,
                                humanize |-> request.data.humanize]
            /\ Stage("openDialog")
            /\ pc' = "open_call"
            /\ UNCHANGED fwhResult
    /\ UNCHANGED <<config, docVars, impl, fillVars, harnessVars, hostVars,
                   request, openVars, waitVars, submitVars, responses>>

FWH_AfterOpen ==
    /\ pc = "open_return"
    /\ AfterStage(openResult, "waitForDialog", "wait_call")
    /\ UNCHANGED <<config, docVars, impl, dataProvider, fillVars, harnessVars,
                   hostVars, request, openVars, waitVars, submitVars,
                   responses>>

FWH_AfterWait_FillAnyway ==
    /\ pc = "wait_return"
    /\ Stage("fillTimeInputs") /\ pc' = "fill_call" /\ UNCHANGED fwhResult
    /\ UNCHANGED <<config, docVars, impl, dataProvider, fillVars, harnessVars,
                   hostVars, request, openVars, waitVars, submitVars,
                   responses>>

FWH_AfterWait ==
    /\ pc = "wait_return"
    /\ AfterStage(waitResult, "fillTimeInputs", "fill_call")
    /\ UNCHANGED <<config, docVars, impl, dataProvider, fillVars, harnessVars,
                   hostVars, request, openVars, waitVars, submitVars,
                   responses>>

FWH_AfterFill_NeedsFilled ==
    /\ pc = "fill_return"
    /\ IF fillResult.success /\ fillResult.details.filled = 0
       THEN fwhResult' = fillResult /\ pc' = "fwh_return" /\ UNCHANGED stages
       ELSE AfterStage(fillResult, "submitForm", "submit_call")
    /\ UNCHANGED <<config, docVars, impl, dataProvider, fillVars, harnessVars,
                   hostVars, request, openVars, waitVars, submitVars,
                   responses>>

FWH_AfterFill ==
    /\ pc = "fill_return"
    /\ AfterStage(fillResult, "submitForm", "submit_call")
    /\ UNCHANGED <<config, docVars, impl, dataProvider, fillVars, harnessVars,
                   hostVars, request, openVars, waitVars, submitVars,
                   responses>>

\* the object returned after a successful submitForm; the modular code adds
\* the fill details
FinalResult(im, details) ==
    IF im = "legacy"
    THEN [success |-> TRUE,
          message |-> "Successfully filled and submitted dialog form!"]
    ELSE [success |-> TRUE,
          message |-> "Successfully filled and submitted timesheet!",
          details |-> [filled |-> details.filled,
                       skipped |-> details.skipped,
                       errors |-> details.errors,
                       submitted |-> TRUE]]

FWH_AfterSubmit_PassesWarning ==
    /\ pc = "submit_return"
    /\ fwhResult' =
         IF ~submitResult.success \/ Has(submitResult, "warning")
         THEN submitResult
         ELSE FinalResult(impl, fillResult.details)
    /\ pc' = "fwh_return"
    /\ UNCHANGED <<config, docVars, impl, dataProvider, fillVars, harnessVars,
                   hostVars, request, stages, openVars, waitVars, submitVars,
                   responses>>

FWH_AfterSubmit ==
    /\ pc = "submit_return"
    /\ fwhResult' =
         IF ~submitResult.success THEN submitResult
         ELSE FinalResult(impl, fillResult.details)
    /\ pc' = "fwh_return"
    /\ UNCHANGED <<config, docVars, impl, dataProvider, fillVars, harnessVars,
                   hostVars, request, stages, openVars, waitVars, submitVars,
                   responses>>

\* .then(result => sendResponse(result))
Respond ==
    /\ pc = "fwh_return"
    /\ responses' = Append(responses, fwhResult)
    /\ pc' = "done"
    /\ UNCHANGED <<config, docVars, impl, dataProvider, fillVars, harnessVars,
                   hostVars, request, stages, openVars, waitVars, submitVars,
                   fwhResult>>

-----------------------------------------------------------------------------
(* The page.  The script runs to its next await without interruption; the  *)
(* page changes the document only while the script sleeps.                 *)

Sleeping ==
    pc \in {"open_sleep", "wait_sleep", "fill_sleep50", "fill_sleep100",
            "submit_sleep", "close_sleep"}

\* the page replaces the dialog's structure by another one
PageChanges(d) ==
    /\ Sleeping
    /\ <<dialog, view, table, submit>> # <<d.dialog, d.view, d.table, d.submit>>
    /\ dialog' = d.dialog
    /\ view' = d.view
    /\ table' = d.table
    /\ submit' = d.submit
    /\ UNCHANGED <<config, trigger, rows, rows0, impl, pc, dataProvider,
                   fillVars, harnessVars, pipeVars>>

\* the page renders the rows of the table
PageRendersRows(rs) ==
    /\ pc = "wait_sleep"
    /\ rows # rs
    /\ rows' = rs
    /\ rows0' = rs
    /\ UNCHANGED <<config, trigger, dialog, view, table, submit, impl, pc,
                   dataProvider, fillVars, harnessVars, pipeVars>>

\* a check of waitForDialog starts or stops throwing
PageGlitch(g) ==
    /\ pc = "wait_sleep"
    /\ glitch # g
    /\ glitch' = g
    /\ UNCHANGED <<config, docVars, impl, pc, dataProvider, fillVars,
                   harnessVars, triggerClicks, submitClicks, request, stages,
                   openVars, waitVars, submitVars, responses, fwhResult>>

-----------------------------------------------------------------------------
(* A test harness: parseDateRow and shouldSkipDate applied to one row.     *)

Classify ==
    /\ pc = "classify"
    /\ LET dateInfo == parseDateRow(rows[1])
       IN  classified' =
             IF dateInfo = Null THEN [dateInfo |-> Null]
             ELSE [dateInfo |-> dateInfo,
                   modular |-> shouldSkipDate(dateInfo, skipRulesOf(config)),
                   legacy |-> legacyShouldSkipDate(dateInfo)]
    /\ pc' = "classified"
    /\ UNCHANGED <<config, docVars, impl, dataProvider, fillVars, pipeVars,
                   sample, pending, popupVars>>

\* A test harness: fillTimeInputs is called again on the same document with
\* the same dataProvider.
CallAgain ==
    /\ pc = "fill_return"
    /\ run < MaxRuns
    /\ prev' = [result |-> fillResult, log |-> log]
    /\ run' = run + 1
    /\ pc' = "fill_call"
    /\ UNCHANGED <<config, docVars, impl, dataProvider, i, timeData,
                   filledCount, skippedCount, errorCount, log, fillResult,
                   harnessVars, pipeVars,
                   events, calls>>

-----------------------------------------------------------------------------
(* ConstantDataProvider.addRandomVariation, called once on checkinTime.    *)

\* the call in which Math.floor(Math.random() * 41) - 20 is v
VaryBy(v) ==
    /\ pc = "vary"
    /\ v \in Variations
    /\ sample' = [base |-> dataProvider.checkinTime,
                  variation |-> v,
                  result |-> addRandomVariation(dataProvider.checkinTime, v)]
    /\ pc' = "varied"
    /\ UNCHANGED <<config, docVars, impl, dataProvider, fillVars, classified,
                   pending, popupVars, pipeVars>>

AddRandomVariation == \E v \in Variations : VaryBy(v)

-----------------------------------------------------------------------------
(* ConstantDataProvider.getTimeData, called repeatedly on one provider.    *)

ProviderAfter_Compounds(provider, returned) ==
    [provider EXCEPT !.checkinTime = returned.checkin,
                     !.checkoutTime = returned.checkout]

\* the provider after a call that returned: getTimeData assigns to none of
\* this.checkinTime, this.checkoutTime, this.humanize
ProviderAfter(provider, returned) == provider

\* lines 37-42: the configured times
GetConstantTimes ==
    /\ pc = "provider" /\ sample.n < MaxCalls
    /\ ~dataProvider.humanize
    /\ LET returned == [checkin |-> dataProvider.checkinTime,
                        checkout |-> dataProvider.checkoutTime]
       IN  /\ sample' = [configured |-> sample.configured,
                         n |-> sample.n + 1,
                         returned |-> returned]
           /\ dataProvider' = ProviderAfter(dataProvider, returned)
    /\ UNCHANGED <<config, docVars, impl, pc, fillVars, classified, pending,
                   popupVars,
                   pipeVars>>

\* line 45: checkinHumanized
HumanizeCheckin ==
    /\ pc = "provider" /\ sample.n < MaxCalls
    /\ dataProvider.humanize
    /\ \E v \in Variations :
          sample' = [configured |-> sample.configured,
                     n |-> sample.n,
                     v1 |-> v,
                     checkinHumanized |->
                         addRandomVariation(dataProvider.checkinTime, v)]
    /\ pc' = "provider_checkout"
    /\ UNCHANGED <<config, docVars, impl, dataProvider, fillVars, classified,
                   pending, popupVars, pipeVars>>

\* lines 46-54: checkoutHumanized, and the result
HumanizeCheckout ==
    /\ pc = "provider_checkout"
    /\ \E v \in Variations :
          LET returned ==
                [checkin |-> sample.checkinHumanized,
                 checkout |-> addRandomVariation(dataProvider.checkoutTime, v)]
          IN  /\ sample' = [configured |-> sample.configured,
                            n |-> sample.n + 1,
                            v1 |-> sample.v1,
                            v2 |-> v,
                            returned |-> returned]
              /\ dataProvider' = ProviderAfter(dataProvider, returned)
    /\ pc' = "provider"
    /\ UNCHANGED <<config, docVars, impl, fillVars, classified, pending,
                   popupVars,
                   pipeVars>>

GetTimeData ==
    \/ GetConstantTimes
    \/ HumanizeCheckin
    \/ HumanizeCheckout

-----------------------------------------------------------------------------
(* Bounded inputs.                                                         *)

Span(t) == [text |-> t]
Input(v) == [value |-> v]
Select(v) == [value |-> v]

RECURSIVE SeqsUpTo(_, _)
SeqsUpTo(S, n) ==
    IF n = 0 THEN {<<>>}
    ELSE LET shorter == SeqsUpTo(S, n - 1)
         IN  shorter \cup {Append(t, c) : t \in shorter, c \in S}

SpecialTexts == SeqsUpTo({"erev", "sp", "chag", "x"}, MaxTextLen)

DateTexts ==
    {<<"25/08/2025", "sp", "vav">>, <<"26/08/2025", "sp", "bet">>,
     <<"26/08/2025", "shin">>, <<"sp", "26/08/2025", "sp", "alef", "sp">>,
     <<"x", "26/08/2025", "sp", "sp", "he", "gimel">>,
     <<"x", "x">>, <<"26/08/2025">>, <<"26/08/2025", "sp", "x", "bet">>}

\* MISSING_EVENT_SKIP_RULES of config.json: absence code -> skip reason
SkipRulesSet ==
    {[c \in {} |-> ""],
     [c \in {"30148"} |-> "Vacation"],
     [c \in {"30148", "30149"} |-> IF c = "30148" THEN "Vacation" ELSE "Sickness"]}

MissingSelects ==
    {NoElement, Select("0"), Select("30148"), Select("30149"), Select("7")}

Empty == <<>>
Blank == <<" ">>
T0815 == <<"0", "8", ":", "1", "5">>
T1745 == <<"1", "7", ":", "4", "5">>
T0900 == <<"0", "9", ":", "0", "0">>
T1800 == <<"1", "8", ":", "0", "0">>

Row(d, s, m, ci, co) ==
    [dateCell |-> d, special |-> s, missing |-> m, checkIn |-> ci, checkOut |-> co]

ClassifyRows ==
    {Row(d, s, m, Input(Empty), Input(Empty)) :
        d \in {NoElement} \cup {Span(t) : t \in DateTexts},
        s \in {NoElement} \cup {Span(t) : t \in SpecialTexts},
        m \in MissingSelects}

Monday == Span(<<"26/08/2025", "sp", "bet">>)
Friday == Span(<<"25/08/2025", "sp", "vav">>)

WorkingRows ==
    {Row(Monday, NoElement, Select("0"), ci, co) :
        ci \in {NoElement, Input(Empty), Input(Blank), Input(T0815)},
        co \in {NoElement, Input(Empty), Input(T1745)}}

SkippedRows ==
    {Row(Friday, NoElement, NoElement, Input(T0815), Input(Empty)),
     Row(Span(<<"x", "x">>), NoElement, NoElement, Input(Empty), Input(Empty)),
     Row(Monday, Span(<<"chag">>), Select("0"), Input(Empty), Input(Empty)),
     Row(Monday, NoElement, Select("30148"), Input(Empty), Input(T1745))}

FillRows == WorkingRows \cup SkippedRows

RowSeqs(S, n) == UNION {[1..k -> S] : k \in 0..n}

Constant(ci, co, h) ==
    [kind |-> "constant", checkinTime |-> ci, checkoutTime |-> co, humanize |-> h]

FillProviders ==
    {Constant(T0900, T1800, FALSE), Constant(Empty, T1800, FALSE),
     [kind |-> "abstract"], [kind |-> "none"]}

DefaultConfig ==
    [MISSING_EVENT_SKIP_RULES |-> [c \in {"30148"} |-> "Vacation"]]

-----------------------------------------------------------------------------
(* Specifications.                                                         *)

-----------------------------------------------------------------------------
(* MeckanoPopup: the popup script.                                         *)

\* what is not the popup's
pageVars == <<config, docVars, impl, pc, dataProvider, fillVars, classified,
              sample, pending, pipeVars>>

timeToMinutes(timeString) ==
    LET parts == SplitColon(timeString)
    IN  Number(parts[1]) * 60 + Number(parts[2])

validateTimeInput(td) ==
    /\ td.startTime # Empty /\ td.endTime # Empty
    /\ ~(timeToMinutes(td.endTime) <= timeToMinutes(td.startTime))

\* statusText.textContent and the type of the status; counts are the numbers
\* the message shows, in the order shown
showStatus(message, type, counts) ==
    [text |-> message, type |-> type, counts |-> counts]

\* response.key || 0
OrZero(response, key) == IF Has(response, key) THEN response[key] ELSE 0

\* lines 144-154: the message of a successful response
SuccessMessage(response) ==
    LET filled == OrZero(response, "filledCount")
        skipped == OrZero(response, "skippedCount")
        alreadyFilled == OrZero(response, "alreadyFilledCount")
    IN  <<[shown |-> "Filled new entries", n |-> filled]>>
        \o (IF alreadyFilled > 0
            THEN <<[shown |-> "already had data", n |-> alreadyFilled]>>
            ELSE <<>>)
        \o (IF skipped > 0
            THEN <<[shown |-> "skipped non-working days", n |-> skipped]>>
            ELSE <<>>)

\* tab?.url?.includes('app.meckano.co.il')
isMeckanoPage(t) == t # NoElement /\ t # Throws /\ t.url = "app.meckano.co.il"

\* checkTabCompatibility once chrome.tabs.query has settled
checkTabCompatibility(p, t) ==
    IF t = Throws
    THEN [p EXCEPT !.status =
                      showStatus("Unable to check current page", "error", <<>>)]
    ELSE IF ~isMeckanoPage(t)
    THEN [p EXCEPT !.status =
                      showStatus("Please navigate to Meckano reports page first",
                                 "error", <<>>),
                   !.disabled = TRUE]
    ELSE [p EXCEPT !.status = showStatus("Ready to fill hours", "info", <<>>)]

NotClicked == [pc |-> "idle", timeData |-> NoResult]

Outstanding == {c \in DOMAIN popupCalls : popupCalls[c].pc = "awaiting_response"}

\* the constructor's checkTabCompatibility resumes
CtorCheckResumes ==
    /\ ctorCheck = "tabs_query"
    /\ ctorCheck' = "done"
    /\ popup' = checkTabCompatibility(popup, tab)
    /\ UNCHANGED <<popupCalls, tab, sent, pageVars>>

\* the user clicks the Fill button and fillHours runs to its first await;
\* a disabled button dispatches no click
Click(c) ==
    /\ popupCalls[c].pc = "idle"
    /\ \A q \in 1..(c - 1) : popupCalls[q].pc # "idle"
    /\ ~popup.disabled
    /\ popupCalls' = [popupCalls EXCEPT ![c].pc = "compat_query"]
    /\ UNCHANGED <<popup, ctorCheck, tab, sent, pageVars>>

\* lines 113-133: from the result of checkTabCompatibility to the second
\* chrome.tabs.query
AfterCompatibility(c) ==
    /\ popupCalls[c].pc = "compat_query"
    /\ LET checked == checkTabCompatibility(popup, tab)
           td == [startTime |-> popup.startTime, endTime |-> popup.endTime,
                  humanize |-> popup.humanize]
       IN  IF ~isMeckanoPage(tab)
           THEN /\ popup' = checked
                /\ popupCalls' = [popupCalls EXCEPT ![c].pc = "returned"]
           ELSE IF ~validateTimeInput(td)
           THEN /\ popup' = [checked EXCEPT !.status =
                                showStatus("Please check your time settings",
                                           "error", <<>>)]
                /\ popupCalls' = [popupCalls EXCEPT ![c] =
                                    [pc |-> "returned", timeData |-> td]]
           ELSE /\ popup' = [checked EXCEPT
                                !.status = showStatus("Filling empty time entries",
                                                      "info", <<>>),
                                !.disabled = TRUE]
                /\ popupCalls' = [popupCalls EXCEPT ![c] =
                                    [pc |-> "tabs_query", timeData |-> td]]
    /\ UNCHANGED <<ctorCheck, tab, sent, pageVars>>

\* lines 133-141: the tab is known and the message is sent
SendMessage(c) ==
    /\ popupCalls[c].pc = "tabs_query"
    /\ sent' = Append(sent, [from |-> c,
                             action |-> "fillHours",
                             data |-> popupCalls[c].timeData])
    /\ popupCalls' = [popupCalls EXCEPT ![c].pc = "awaiting_response"]
    /\ UNCHANGED <<popup, ctorCheck, tab, pageVars>>

\* lines 143-168: the response arrived
ResponseArrives(c, response) ==
    /\ popupCalls[c].pc = "awaiting_response"
    /\ popup' = [popup EXCEPT
                   !.status =
                      IF response.success
                      THEN showStatus("Filled", "success",
                                      SuccessMessage(response))
                      ELSE showStatus(response.error, "error", <<>>),
                   !.disabled = FALSE]
    /\ popupCalls' = [popupCalls EXCEPT ![c].pc = "returned"]
    /\ UNCHANGED <<ctorCheck, tab, sent, pageVars>>

\* lines 163-168: sendMessage rejected (no receiver in the tab)
SendFails(c) ==
    /\ popupCalls[c].pc = "awaiting_response"
    /\ popup' = [popup EXCEPT
                   !.status = showStatus("Fill operation failed. Please try again.",
                                         "error", <<>>),
                   !.disabled = FALSE]
    /\ popupCalls' = [popupCalls EXCEPT ![c].pc = "returned"]
    /\ UNCHANGED <<ctorCheck, tab, sent, pageVars>>

\* the popup with the default settings, its constructor done, on a Meckano tab
InitPopupVars ==
    /\ popup = [startTime |-> T0900, endTime |-> T1800, humanize |-> FALSE,
                disabled |-> FALSE,
                status |-> showStatus("Ready to fill hours", "info", <<>>)]
    /\ popupCalls = <<>>
    /\ ctorCheck = "done"
    /\ tab = [url |-> "app.meckano.co.il"]
    /\ sent = <<>>

InitFillVars ==
    /\ i = 1
    /\ timeData = Null
    /\ filledCount = 0
    /\ skippedCount = 0
    /\ errorCount = 0
    /\ log = <<>>
    /\ fillResult = NoResult
    /\ run = 1
    /\ prev = NoResult
    /\ events = <<>>
    /\ calls = <<>>

InitPipeVars ==
    /\ triggerClicks = 0
    /\ submitClicks = 0
    /\ request = Null
    /\ stages = <<>>
    /\ openResult = NoResult
    /\ attempt = 0
    /\ waitSleeps = 0
    /\ waitSlept = 0
    /\ failedAttempts = 0
    /\ fwhResult = NoResult
    /\ waitLog = NoResult
    /\ waitResult = NoResult
    /\ closeAttempt = 0
    /\ closeSleeps = 0
    /\ closeResult = NoResult
    /\ submitResult = NoResult
    /\ responses = <<>>

\* shouldSkipDate on every row of ClassifyRows, under every configuration
InitClassify ==
    /\ config \in {[MISSING_EVENT_SKIP_RULES |-> r] : r \in SkipRulesSet}
                   \cup {EmptyObject}
    /\ trigger = TRUE
    /\ dialog = VisibleDialog
    /\ view = VisibleDialog
    /\ table = TableIn("view")
    /\ submit = Button(FALSE)
    /\ rows \in {<<r>> : r \in ClassifyRows}
    /\ rows0 = rows
    /\ impl = "modular"
    /\ pc = "classify"
    /\ dataProvider = Constant(T0900, T1800, FALSE)
    /\ InitFillVars
    /\ classified = NoResult
    /\ pending = <<>>
    /\ InitPopupVars
    /\ sample = NoResult
    /\ InitPipeVars
    /\ glitch = 0
    /\ waitArgs = EmptyObject

NextClassify == Classify

SpecClassify == InitClassify /\ [][NextClassify]_vars

\* fillTimeInputs called directly, twice, on a rendered or unrendered dialog
InitFill ==
    /\ config = DefaultConfig
    /\ trigger = TRUE
    /\ dialog \in {VisibleDialog, NoElement}
    /\ view = dialog
    /\ table \in IF dialog = NoElement THEN {NoElement}
                 ELSE {TableIn("view"), NoElement}
    /\ submit = IF dialog = NoElement THEN NoElement ELSE Button(FALSE)
    /\ rows \in RowSeqs(FillRows, MaxRows)
    /\ rows0 = rows
    /\ impl \in {"modular", "legacy"}
    /\ pc = "fill_call"
    /\ dataProvider \in FillProviders
    /\ InitFillVars
    /\ classified = NoResult
    /\ pending = <<>>
    /\ InitPopupVars
    /\ sample = NoResult
    /\ InitPipeVars
    /\ glitch = 0
    /\ waitArgs = EmptyObject

\* RowNoData: a provider other than ConstantDataProvider gives no data
NextFill == FillPass \/ RowNoData \/ CallAgain

SpecFill == InitFill /\ [][NextFill]_vars

-----------------------------------------------------------------------------
(* waitForDialog against a page that renders, hides and breaks the dialog  *)
(* while the script sleeps.                                                *)

Doc(d, v, t, b) == [dialog |-> d, view |-> v, table |-> t, submit |-> b]

Hidden == Element("none", "none")

ReadyDoc == Doc(VisibleDialog, VisibleDialog, TableIn("view"), Button(FALSE))

\* one or two documents for each check that can fail, and three ready ones
WaitDocs ==
    {Doc(NoElement, NoElement, NoElement, NoElement),
     Doc(Hidden, VisibleDialog, TableIn("view"), Button(FALSE)),
     Doc(VisibleDialog, NoElement, NoElement, Button(FALSE)),
     Doc(VisibleDialog, Element("none", "block"), TableIn("view"), Button(FALSE)),
     Doc(VisibleDialog, Element("", "none"), TableIn("view"), Button(FALSE)),
     Doc(VisibleDialog, VisibleDialog, NoElement, Button(FALSE)),
     Doc(VisibleDialog, VisibleDialog, TableIn("dialog"), Button(FALSE)),
     Doc(VisibleDialog, VisibleDialog, TableIn("view"), NoElement),
     Doc(Element("block", "none"), VisibleDialog, TableIn("view"), Button(TRUE)),
     Doc(Element("", "block"), Element("", "block"), TableIn("view"), Button(FALSE)),
     ReadyDoc}

EmptyRow == Row(Monday, NoElement, Select("0"), Input(Empty), Input(Empty))
HalfRow == Row(Monday, NoElement, Select("0"), Input(T0815), Input(Empty))
BareRow == Row(Monday, NoElement, Select("0"), NoElement, NoElement)

WaitRows == {<<>>, <<BareRow>>, <<BareRow, HalfRow>>}

Delays == {10}

RetryConfig(n, d) ==
    [dialogManager |-> [waitForDialogMaxRetries |-> n,
                        waitForDialogDelayTime |-> d]]

WaitConfigs ==
    {RetryConfig(n, d) : n \in 0..MaxAttempts, d \in Delays}
    \cup {[dialogManager |-> [waitForDialogMaxRetries |-> 2]], EmptyObject}

WaitArgs ==
    {[maxRetries |-> n, delayMs |-> d] : n \in 0..MaxAttempts, d \in Delays}

InitDoc(docs) ==
    \E d \in docs :
        /\ dialog = d.dialog
        /\ view = d.view
        /\ table = d.table
        /\ submit = d.submit

InitWait ==
    /\ impl \in {"modular", "legacy"}
    /\ IF impl = "modular"
       THEN config \in WaitConfigs /\ waitArgs = EmptyObject
       ELSE config = EmptyObject /\ waitArgs \in WaitArgs \cup {EmptyObject}
    /\ trigger = TRUE
    /\ InitDoc(WaitDocs)
    /\ rows \in WaitRows
    /\ rows0 = rows
    /\ pc = "wait_call"
    /\ dataProvider = Constant(T0900, T1800, FALSE)
    /\ InitFillVars
    /\ classified = NoResult
    /\ pending = <<>>
    /\ InitPopupVars
    /\ sample = NoResult
    /\ InitPipeVars
    /\ glitch \in 0..NumChecks

NextWait ==
    \/ WaitForDialog
    \/ \E d \in WaitDocs : PageChanges(d)
    \/ \E rs \in WaitRows : PageRendersRows(rs)
    \/ \E g \in 0..NumChecks : PageGlitch(g)

SpecWait == InitWait /\ [][NextWait]_vars

\* every step of waitForDialog is taken eventually: timers fire
FairSpecWait == SpecWait /\ WF_vars(WaitForDialog)

-----------------------------------------------------------------------------
(* The content script: one request, from the message to the response.      *)

Requests ==
    {[action |-> "fillHours",
      data |-> [startTime |-> T0900, endTime |-> T1800, humanize |-> FALSE]],
     [action |-> "fillHours"],
     [action |-> "ping"]}

PipelineConfig ==
    [MISSING_EVENT_SKIP_RULES |-> [c \in {"30148"} |-> "Vacation"],
     dialogManager |-> [waitForDialogMaxRetries |-> 2,
                        waitForDialogDelayTime |-> 250],
     DEFAULT_RETRY_COUNT |-> 2,
     DEFAULT_DELAY_MS |-> 1000]

PipelineDocs ==
    {Doc(NoElement, NoElement, NoElement, NoElement),
     Doc(Hidden, VisibleDialog, TableIn("view"), Button(FALSE)),
     Doc(VisibleDialog, VisibleDialog, TableIn("dialog"), Button(FALSE)),
     Doc(VisibleDialog, VisibleDialog, TableIn("view"), Button(TRUE)),
     Doc(VisibleDialog, VisibleDialog, TableIn("view"), NoElement),
     ReadyDoc}

CompleteRow == Row(Monday, NoElement, Select("0"), Input(T0815), Input(T1745))
NoDateRow == Row(NoElement, NoElement, NoElement, Input(Empty), Input(Empty))

PipelineRows ==
    {<<>>,
     <<EmptyRow>>,
     <<Row(Friday, NoElement, NoElement, Input(Empty), Input(Empty)), HalfRow>>,
     <<CompleteRow, BareRow>>,
     <<NoDateRow, EmptyRow>>}

Init ==
    /\ impl \in {"modular", "legacy"}
    /\ config = PipelineConfig
    /\ trigger \in BOOLEAN
    /\ InitDoc(PipelineDocs)
    /\ rows \in PipelineRows
    /\ rows0 = rows
    /\ pc = "idle"
    /\ dataProvider = Null
    /\ InitFillVars
    /\ classified = NoResult
    /\ pending = <<>>
    /\ InitPopupVars
    /\ sample = NoResult
    /\ InitPipeVars
    /\ glitch = 0
    /\ waitArgs = EmptyObject

Next ==
    \/ \E req \in Requests : Receive(req)
    \/ FWH_Start
    \/ OpenDialog
    \/ OpenAfterSleep
    \/ FWH_AfterOpen
    \/ WaitForDialog
    \/ FWH_AfterWait
    \/ FillPass
    \/ FWH_AfterFill
    \/ SubmitPass
    \/ FWH_AfterSubmit
    \/ Respond
    \/ \E d \in PipelineDocs : PageChanges(d)
    \/ \E rs \in PipelineRows : PageRendersRows(rs)
    \/ \E g \in {0, 5} : PageGlitch(g)

Spec == Init /\ [][Next]_vars

\* the steps of the content script from the call of fillWorkingHours to
\* sendResponse: the continuations of its awaits
RunToCompletion ==
    \/ FWH_Start
    \/ OpenDialog
    \/ OpenAfterSleep
    \/ FWH_AfterOpen
    \/ WaitForDialog
    \/ FWH_AfterWait
    \/ FillPass
    \/ FWH_AfterFill
    \/ SubmitPass
    \/ FWH_AfterSubmit
    \/ Respond

\* every timer fires and every continuation runs; nothing is assumed of the
\* page or of the arrival of requests
FairSpec == Spec /\ WF_vars(RunToCompletion)

-----------------------------------------------------------------------------
(* addRandomVariation on every time of the day.                            *)

ValidTimes == {FormatTime(m) : m \in 0..1439}

InitVariation ==
    /\ config = DefaultConfig
    /\ trigger = TRUE
    /\ InitDoc({ReadyDoc})
    /\ rows = <<>>
    /\ rows0 = rows
    /\ impl \in {"modular", "legacy"}
    /\ pc = "vary"
    /\ dataProvider \in {Constant(t, T1800, TRUE) : t \in ValidTimes}
    /\ InitFillVars
    /\ classified = NoResult
    /\ pending = <<>>
    /\ InitPopupVars
    /\ sample = NoResult
    /\ InitPipeVars
    /\ glitch = 0
    /\ waitArgs = EmptyObject

NextVariation == AddRandomVariation

SpecVariation == InitVariation /\ [][NextVariation]_vars

-----------------------------------------------------------------------------
(* getTimeData called up to MaxCalls times on one provider.                *)

T0005 == <<"0", "0", ":", "0", "5">>
T2350 == <<"2", "3", ":", "5", "0">>

CalledProviders ==
    {Constant(T0900, T1800, TRUE), Constant(T0005, T2350, TRUE),
     Constant(T0900, T1800, FALSE)}

InitProvider ==
    /\ config = DefaultConfig
    /\ trigger = TRUE
    /\ InitDoc({ReadyDoc})
    /\ rows = <<>>
    /\ rows0 = rows
    /\ impl \in {"modular", "legacy"}
    /\ pc = "provider"
    /\ dataProvider \in CalledProviders
    /\ InitFillVars
    /\ classified = NoResult
    /\ pending = <<>>
    /\ InitPopupVars
    /\ sample = [configured |-> dataProvider, n |-> 0]
    /\ InitPipeVars
    /\ glitch = 0
    /\ waitArgs = EmptyObject

NextProvider == GetTimeData

SpecProvider == InitProvider /\ [][NextProvider]_vars

-----------------------------------------------------------------------------
(* Properties of shouldSkipDate, under SpecClassify.                       *)

Parsed == pc = "classified" /\ classified.dateInfo # Null

Weekend(dateInfo) == dateInfo.hebrewDay \in {"vav", "shin"}

\* C3: a row whose special-day text contains both the holiday token and the
\* holiday-eve token is never classified Holiday, by the modular and by the
\* legacy shouldSkipDate; on a weekday that is not a weekend it is
\* classified Holiday Eve.
C3_EveNeverHoliday ==
    (/\ Parsed
     /\ Includes(classified.dateInfo.specialText, HolidayToken)
     /\ Includes(classified.dateInfo.specialText, HolidayEveToken))
    => /\ classified.modular # Skip("Holiday")
       /\ classified.legacy # Skip("Holiday")
       /\ ~Weekend(classified.dateInfo)
            => /\ classified.modular = Skip("Holiday Eve")
               /\ classified.legacy = Skip("Holiday Eve")

C3_Witness ==
    /\ Parsed
    /\ classified.dateInfo.specialText = <<"erev", "sp", "chag">>
    /\ classified.dateInfo.hebrewDay = "bet"
    /\ classified.modular = Skip("Holiday Eve")

\* rules 1-3 as shouldSkipDate evaluates them
Rule2(dateInfo) ==
    /\ Includes(dateInfo.specialText, HolidayToken)
    /\ ~Includes(dateInfo.specialText, EveWord)
Rule3(dateInfo) == Includes(dateInfo.specialText, HolidayEveToken)

\* C4: shouldSkipDate is total over parsed rows and yields exactly one
\* outcome, Skip with one reason or Work; a weekend weekday marker yields
\* Weekend whatever the annotation and the absence code are; a row matched
\* by none of rules 1-3 is skipped with reason R exactly when the configured
\* absence mapping maps its absence code to R, and is Work otherwise.
C4_TotalFirstMatch ==
    Parsed =>
      LET d == classified.dateInfo
          r == classified.modular
          code == d.missingEventValue
      IN  /\ r = Work \/ (r.skip /\ r = Skip(r.skipReason))
          /\ Weekend(d) =>
               r = Skip(IF d.hebrewDay = "vav" THEN "Weekend (Friday)"
                        ELSE "Weekend (Saturday)")
          /\ (~Weekend(d) /\ ~Rule2(d) /\ ~Rule3(d)) =>
               IF code \in DOMAIN skipRulesOf(config)
               THEN r = Skip(skipRulesOf(config)[code])
               ELSE r = Work

C4_Witness ==
    /\ Parsed
    /\ classified.dateInfo.hebrewDay = "shin"
    /\ classified.dateInfo.missingEventValue = "30148"
    /\ "30148" \in DOMAIN skipRulesOf(config)
    /\ Includes(classified.dateInfo.specialText, HolidayToken)
    /\ classified.modular = Skip("Weekend (Saturday)")

\* C5: every row whose special-day annotation contains the holiday token,
\* alone or together with the eve word in any position, is classified Skip.
C5_HolidayAlwaysSkipped ==
    (Parsed /\ Includes(classified.dateInfo.specialText, HolidayToken))
    => classified.modular.skip

-----------------------------------------------------------------------------
(* Properties of fillTimeInputs, under SpecFill.                           *)

InputFields == {"checkIn", "checkOut"}

Returned == pc = "fill_return"

\* C1 as stated: an input whose value has length >= 1 before the pass has
\* the same value after it.
C1_NonEmptyKept ==
    \A r \in 1..Len(rows) : \A f \in InputFields :
        (rows0[r][f] # NoElement /\ Len(rows0[r][f].value) >= 1)
        => rows[r][f] = rows0[r][f]

\* C1, amended: an input whose value is not blank (is non-empty after
\* trimming white space) before the pass has the same value at every moment
\* of the pass and after it, whatever the data source returns.
C1_NonBlankKept ==
    \A r \in 1..Len(rows) : \A f \in InputFields :
        (rows0[r][f] # NoElement /\ Trim(rows0[r][f].value) # <<>>)
        => rows[r][f] = rows0[r][f]

C1_Witness ==
    /\ Returned
    /\ \E r \in 1..Len(rows) :
          /\ rows0[r].checkIn = Input(T0815)
          /\ rows0[r].checkOut = Input(Empty)
          /\ rows[r].checkOut = Input(T1800)
          /\ rows[r].checkIn = Input(T0815)

WorkingOutcomes == {"complete", "no-data", "error", "failed", "filled"}

SecondRun ==
    /\ Returned /\ run >= 2 /\ impl = "modular"
    /\ fillResult.success /\ prev.result.success

\* C2 as stated: the second run reports filled = 0 and every row the first
\* run treated as a working day is skipped by the second run as already
\* complete.
C2_Idempotent ==
    SecondRun =>
      /\ fillResult.details.filled = 0
      /\ \A r \in 1..Len(log) :
            prev.log[r].outcome \in WorkingOutcomes => log[r].outcome = "complete"

NonBlankData ==
    dataProvider.kind = "constant" =>
      /\ Trim(dataProvider.checkinTime) # <<>>
      /\ Trim(dataProvider.checkoutTime) # <<>>

\* C2, amended: with a data source whose checkin and checkout values are
\* not blank, the second run reports filled = 0, every row the first run
\* filled or found already complete is skipped by the second run as already
\* complete, and every working-day row the first run counted as an error is
\* counted as the same error again.
C2_IdempotentNonBlank ==
    (SecondRun /\ NonBlankData) =>
      /\ fillResult.details.filled = 0
      /\ \A r \in 1..Len(log) :
            /\ prev.log[r].outcome \in {"filled", "complete"}
                 => log[r].outcome = "complete"
            /\ prev.log[r].outcome \in {"no-data", "error", "failed"}
                 => log[r].outcome = prev.log[r].outcome

C2_Witness ==
    /\ SecondRun /\ NonBlankData
    /\ \E r \in 1..Len(log) :
          /\ prev.log[r].outcome = "filled"
          /\ log[r].outcome = "complete"
    /\ prev.result.details.filled >= 1

C10_CompleteIsSkipped ==
    [][(/\ pc = "fill_loop" /\ i <= Len(rows)
        /\ parseDateRow(rows[i]) # Null
        /\ ~SkipDecision(parseDateRow(rows[i])).skip
        /\ isRowComplete(rows[i]))
       => /\ skippedCount' = skippedCount + 1
          /\ filledCount' = filledCount
          /\ errorCount' = errorCount
          /\ rows' = rows]_vars

-----------------------------------------------------------------------------
(* Properties of waitForDialog, under SpecWait and FairSpecWait.           *)

IsOk(result) == Has(result, "success") /\ result.success
IsFailure(result) == Has(result, "success") /\ ~result.success

WaitReturned == pc = "wait_return"

\* the seven conditions of readiness, in the document as it is now
AllSevenPass ==
    /\ glitch = 0
    /\ dialog # NoElement
    /\ dialog.style = "block" \/ dialog.computed # "none"
    /\ view # NoElement
    /\ view.style # "none" /\ view.computed # "none"
    /\ table # NoElement /\ table.within = "view"
    /\ CountInputs(rows) >= 1
    /\ submit # NoElement

C6_NotReadyAfterN ==
    WaitReturned /\ HasMaxRetries /\ maxRetries >= 1 /\ IsFailure(waitResult)
    => /\ failedAttempts = maxRetries
       /\ attempt = maxRetries + 1
       /\ waitSlept >= (maxRetries - 1) * delayMs

\* C6: waitForDialog configured with N >= 1 attempts and interval d always
\* returns; when no attempt found the dialog ready, whichever check failed or
\* threw in each attempt, it returns not-ready after exactly N attempts, having
\* slept at least (N - 1) * d milliseconds.
C6_PollingTerminates == [](C6_NotReadyAfterN) /\ <>(WaitReturned)

\* five attempts at 10 ms, each ended by an exception: exactly 40 ms slept
C6_Witness ==
    /\ WaitReturned /\ IsFailure(waitResult)
    /\ HasMaxRetries /\ maxRetries = 5 /\ delayMs = 10
    /\ failedAttempts = 5
    /\ waitSlept = 40

\* C7: an attempt in which all seven checks pass returns ready at once,
\* reporting its number and the number of time inputs, every earlier attempt
\* having failed; an attempt in which a check fails does not return ready;
\* nothing is attempted or slept after the return; not-ready is returned only
\* after all the configured attempts failed.
C7_ReadyAtFirstPassingAttempt ==
    [][/\ pc = "wait_attempt" /\ WaitLoopGuard /\ AllSevenPass
          => /\ pc' = "wait_return"
             /\ waitResult' = [success |-> TRUE, attempts |-> attempt,
                               timeInputsCount |-> CountInputs(rows)]
             /\ failedAttempts = attempt - 1
             /\ UNCHANGED <<attempt, waitSleeps, waitSlept>>
       /\ pc = "wait_attempt" /\ ~AllSevenPass => ~IsOk(waitResult')
       /\ pc = "wait_sleep" => ~IsOk(waitResult')
       /\ WaitReturned => UNCHANGED <<attempt, waitSleeps, waitResult>>
       /\ IsFailure(waitResult') /\ HasMaxRetries
          => failedAttempts' = maxRetries /\ attempt' > maxRetries]_vars

\* ready at the third attempt, after two failed attempts and two sleeps
C7_Witness ==
    /\ WaitReturned /\ IsOk(waitResult)
    /\ waitResult.attempts = 3
    /\ waitResult.timeInputsCount = 2
    /\ failedAttempts = 2
    /\ waitSleeps = 2

-----------------------------------------------------------------------------
(* Properties of fillWorkingHours, under Spec.                             *)

StageOrder == <<"openDialog", "waitForDialog", "fillTimeInputs", "submitForm">>

\* what each stage returned, in the order of the stages
StageResults == <<openResult, waitResult, fillResult, submitResult>>

\* the stage's own code has run
StageRan(k) ==
    CASE k = 1 -> openResult # NoResult \/ pc \in {"open_sleep"}
      [] k = 2 -> attempt >= 1
      [] k = 3 -> fillResult # NoResult \/ pc \in {"fill_loop", "fill_sleep50",
                                                    "fill_sleep100"}
      [] k = 4 -> submitResult # NoResult \/ pc \in {"submit_sleep",
                                                      "close_attempt",
                                                      "close_sleep",
                                                      "close_return"}

\* C8: the stages run in the order openDialog, waitForDialog, fillTimeInputs,
\* submitForm; a stage runs only after every earlier stage returned success;
\* the result of fillWorkingHours is the first failing stage's result, and no
\* later stage ran; no field is written before readiness was reported; the
\* submit control is clicked only after readiness and a successful fill pass.
C8_PipelineOrder ==
    /\ Len(stages) <= 4
    /\ \A k \in 1..Len(stages) : stages[k] = StageOrder[k]
    /\ \A k \in 1..4 : StageRan(k) => Len(stages) >= k
    /\ \A k \in 2..4 : StageRan(k) => \A j \in 1..(k - 1) : IsOk(StageResults[j])
    /\ \A k \in 1..4 :
          IsFailure(StageResults[k]) /\ fwhResult # NoResult
          => /\ fwhResult = StageResults[k]
             /\ \A j \in (k + 1)..4 : ~StageRan(j)
    /\ rows # rows0 => IsOk(waitResult)
    /\ submitClicks > 0 => IsOk(waitResult) /\ IsOk(fillResult)

\* readiness failed after the trigger was clicked: that failure is the
\* response, nothing was written and nothing was submitted
C8_Witness ==
    /\ pc = "done"
    /\ stages = <<"openDialog", "waitForDialog">>
    /\ IsOk(openResult) /\ IsFailure(waitResult)
    /\ responses = <<waitResult>>
    /\ rows # <<>>
    /\ fillResult = NoResult /\ submitClicks = 0

-----------------------------------------------------------------------------
(* Rows that fillTimeInputs skips, under SpecFill.                         *)

\* the row is unparsable, not a working day, or already complete
SkippedKind(row) ==
    \/ parseDateRow(row) = Null
    \/ shouldSkipDate(parseDateRow(row), skipRulesOf(config)).skip
    \/ isRowComplete(row)

EventsOn(r) == {k \in 1..Len(events) : events[k].row = r}
CallsFor(r) == {k \in 1..Len(calls) : calls[k] = r}

SkippedUntouched ==
    impl = "modular" =>
      \A r \in 1..Len(rows) :
          SkippedKind(rows0[r])
          => rows[r] = rows0[r] /\ EventsOn(r) = {} /\ CallsFor(r) = {}

SkippedStep ==
    (impl = "modular" /\ pc = "fill_loop" /\ i <= Len(rows)
       /\ SkippedKind(rows[i]))
    => /\ rows' = rows /\ events' = events /\ calls' = calls
       /\ skippedCount' = skippedCount + 1
       /\ filledCount' = filledCount /\ errorCount' = errorCount
       /\ i' = i + 1

\* C11: in the modular FormManager a row that is unparsable, classified as
\* weekend, holiday, holiday eve or absence, or already complete keeps both
\* input values during every pass, has no input or change event dispatched on
\* it, is never passed to the data source, and adds exactly one to the
\* skipped count and nothing to the other counts.
C11_SkippedUntouched == [](SkippedUntouched) /\ [][SkippedStep]_vars

\* a Friday row with an empty checkOut was skipped by a pass whose data
\* source had times for it
C11_Witness ==
    /\ Returned /\ impl = "modular" /\ fillResult.success
    /\ dataProvider = Constant(T0900, T1800, FALSE)
    /\ \E r \in 1..Len(rows) :
          /\ rows0[r].dateCell = Friday
          /\ rows0[r].checkOut = Input(Empty)
          /\ rows[r] = rows0[r]
          /\ log[r].outcome = "skip"
    /\ fillResult.details.skipped >= 1
    /\ fillResult.details.filled >= 1

-----------------------------------------------------------------------------
(* Rows that fillTimeInputs fills, under SpecFill.                         *)

\* a parsed working-day row with both inputs that is not complete
FillableRow(row) ==
    /\ parseDateRow(row) # Null
    /\ ~SkipDecision(parseDateRow(row)).skip
    /\ row.checkIn # NoElement /\ row.checkOut # NoElement
    /\ ~isRowComplete(row)

\* the field keeps old when kept(old), and holds new otherwise
KeptOrFilled(field, old, new, kept(_)) ==
    field.value = IF kept(old.value) THEN old.value ELSE new

NonEmpty(v) == Len(v) >= 1
NonBlank(v) == Trim(v) # <<>>

FillResultPerField(kept(_)) ==
    (Returned /\ fillResult.success /\ run = 1) =>
      \A td \in getTimeData(dataProvider) : td \notin {Null, Throws} =>
        \A r \in 1..Len(rows) : FillableRow(rows0[r]) =>
          /\ KeptOrFilled(rows[r].checkIn, rows0[r].checkIn, td.checkin, kept)
          /\ KeptOrFilled(rows[r].checkOut, rows0[r].checkOut, td.checkout, kept)
          /\ log[r].outcome = "filled"

\* C12 as stated: after a pass over the rows as loaded, each input of a
\* fillable row holds its old value if that was non-empty (length >= 1) and
\* the data source's value otherwise, and the row counts as filled.
C12_FillPerField == FillResultPerField(NonEmpty)

\* C12, amended: after a pass over the rows as loaded, each input of a
\* fillable row holds its old value if that was not blank (non-empty after
\* trimming white space) and the data source's value otherwise, and the row
\* counts as filled.
C12_FillPerFieldNonBlank == FillResultPerField(NonBlank)

\* an empty row, filled from the window 09:00-18:00
C12_Witness ==
    /\ Returned /\ fillResult.success /\ run = 1
    /\ dataProvider = Constant(T0900, T1800, FALSE)
    /\ \E r \in 1..Len(rows) :
          /\ FillableRow(rows0[r])
          /\ rows0[r].checkIn = Input(Empty) /\ rows0[r].checkOut = Input(Empty)
          /\ rows[r].checkIn = Input(T0900) /\ rows[r].checkOut = Input(T1800)
          /\ log[r].outcome = "filled"

-----------------------------------------------------------------------------
(* Properties of addRandomVariation, under SpecVariation.                  *)

IsDigit(c) == c \in {Digits[k] : k \in 1..10}

\* s is HH:MM with two digits on each side of the colon
ZeroPaddedTime(s) ==
    /\ Len(s) = 5
    /\ s[3] = ":"
    /\ \A k \in {1, 2, 4, 5} : IsDigit(s[k])

HoursOf(s) == 10 * DigitValue(s[1]) + DigitValue(s[2])
MinutesOf(s) == 10 * DigitValue(s[4]) + DigitValue(s[5])
MinuteOfDay(s) == 60 * HoursOf(s) + MinutesOf(s)

\* C13: for every configured time T of the day, every result of
\* addRandomVariation(T) is a zero-padded HH:MM time of the day whose minute
\* of the day is T plus the drawn offset, clamped to [0, 1439], hence within
\* [max(0, T - 20), min(1439, T + 20)]; and for every integer offset from
\* -20 to +20 some draw gives T plus that offset, clamped, so that two draws
\* can give different results.
C13_JitterBounds ==
    /\ pc = "vary" =>
         LET T == MinuteOfDay(dataProvider.checkinTime)
             results == {addRandomVariation(dataProvider.checkinTime, u) :
                           u \in Variations}
         IN  /\ \A v \in (0 - 20)..20 :
                   FormatTime(Max(0, Min(1439, T + v))) \in results
             /\ Cardinality(results) >= 2
    /\ pc = "varied" =>
         LET T == MinuteOfDay(sample.base)
             M == MinuteOfDay(sample.result)
         IN  /\ ZeroPaddedTime(sample.result)
             /\ HoursOf(sample.result) <= 23 /\ MinutesOf(sample.result) <= 59
             /\ M >= Max(0, T - 20) /\ M <= Min(1439, T + 20)
             /\ M = Max(0, Min(1439, T + sample.variation))

\* 23:50 plus 20 minutes is clamped to 23:59
C13_Witness ==
    /\ pc = "varied"
    /\ sample.base = <<"2", "3", ":", "5", "0">>
    /\ sample.variation = 20
    /\ sample.result = <<"2", "3", ":", "5", "9">>

-----------------------------------------------------------------------------
(* Properties of getTimeData, under SpecProvider.                          *)

Abs(n) == IF n < 0 THEN 0 - n ELSE n

Within20(returned, configured) ==
    Abs(MinuteOfDay(returned) - MinuteOfDay(configured)) <= 20

\* C14: whatever number of getTimeData calls was made, the provider has the
\* checkinTime, checkoutTime and humanize it was constructed with, every
\* returned checkin and checkout is within 20 minutes of the configured time
\* (equal to it without humanize), and the two times of a humanized result
\* come from two offsets drawn separately.
C14_NoCompounding ==
    /\ dataProvider = sample.configured
    /\ Has(sample, "returned") =>
         /\ Within20(sample.returned.checkin, sample.configured.checkinTime)
         /\ Within20(sample.returned.checkout, sample.configured.checkoutTime)
         /\ IF sample.configured.humanize
            THEN /\ sample.returned.checkin =
                      addRandomVariation(sample.configured.checkinTime, sample.v1)
                 /\ sample.returned.checkout =
                      addRandomVariation(sample.configured.checkoutTime, sample.v2)
            ELSE /\ sample.returned.checkin = sample.configured.checkinTime
                 /\ sample.returned.checkout = sample.configured.checkoutTime

\* the second call on 09:00-18:00 returned 08:40-18:20: opposite offsets
C14_Witness ==
    /\ pc = "provider" /\ sample.n = 2
    /\ dataProvider = Constant(T0900, T1800, TRUE)
    /\ sample.v1 = 0 - 20 /\ sample.v2 = 20
    /\ sample.returned = [checkin |-> <<"0", "8", ":", "4", "0">>,
                          checkout |-> <<"1", "8", ":", "2", "0">>]

-----------------------------------------------------------------------------
(* Properties of submitForm and openDialog, under Spec.                    *)

SubmitRefusal ==
    IF dialog = NoElement THEN "Dialog not found for submission"
    ELSE IF submit = NoElement THEN "Submit button not found"
    ELSE IF submit.disabled THEN "Submit button is disabled"
    ELSE "none"

\* C15: submitForm called when the dialog is absent, the submit control is
\* absent, or the submit control is disabled returns the failure of that
\* case without clicking the control and without polling for the dialog to
\* close; and a failure of submitForm always comes with no click and no poll.
C15_RefusesWithoutClick ==
    [][/\ (pc = "submit_call" /\ SubmitRefusal # "none")
          => /\ submitResult' = [success |-> FALSE, error |-> SubmitRefusal]
             /\ pc' = "submit_return"
             /\ submitClicks' = submitClicks
             /\ closeAttempt' = 0 /\ closeSleeps' = 0
             /\ closeResult' = NoResult
       /\ IsFailure(submitResult')
          => submitClicks' = 0 /\ closeAttempt' = 0 /\ closeSleeps' = 0]_vars

\* the page disabled the submit control while the rows were being filled
C15_Witness ==
    /\ pc = "done"
    /\ submitResult = [success |-> FALSE, error |-> "Submit button is disabled"]
    /\ submit # NoElement /\ submit.disabled
    /\ submitClicks = 0 /\ closeAttempt = 0
    /\ rows # rows0
    /\ responses = <<submitResult>>

DialogGoneOrHidden ==
    dialog = NoElement \/ ~(dialog.style = "block" \/ dialog.computed # "none")

\* C16: a submitForm that clicked the submit control returns success = true:
\* without a warning when waitForDialogClose found the dialog absent or
\* hidden, with a warning when the dialog was still open at the last of the
\* close-poll attempts; it never returns success = false after the click.
C16_CloseTimeoutIsWarning ==
    (submitClicks > 0 /\ submitResult # NoResult) =>
      /\ IsOk(submitResult)
      /\ IsOk(closeResult) =>
           /\ ~Has(submitResult, "warning")
           /\ DialogGoneOrHidden
      /\ ~IsOk(closeResult) =>
           /\ Has(submitResult, "warning")
           /\ ~DialogGoneOrHidden
           /\ closeAttempt = closeMaxRetries + 1
           /\ closeSleeps = closeMaxRetries - 1

\* the dialog stayed open through all close-poll attempts
C16_Witness ==
    /\ pc = "done"
    /\ submitClicks = 1
    /\ IsOk(submitResult) /\ Has(submitResult, "warning")
    /\ IsFailure(closeResult)
    /\ closeAttempt = closeMaxRetries + 1
    /\ Len(responses) = 1 /\ responses[1].success

TriggerNotFound ==
    [success |-> FALSE, error |-> "Dialog trigger element not found"]

\* C17: openDialog called when no trigger element exists returns the
\* trigger-not-found failure at once, with no click and no settle delay;
\* called when the trigger exists it clicks it once and then sleeps, and it
\* returns success only from the end of that sleep; it fails in no other case.
C17_OpenDialog ==
    [][/\ (pc = "open_call" /\ ~trigger)
          => /\ openResult' = TriggerNotFound
             /\ pc' = "open_return"
             /\ triggerClicks' = triggerClicks
       /\ (pc = "open_call" /\ trigger)
          => /\ triggerClicks' = triggerClicks + 1
             /\ pc' = "open_sleep"
             /\ ~IsOk(openResult') /\ ~IsFailure(openResult')
       /\ (IsOk(openResult') /\ ~IsOk(openResult))
          => pc = "open_sleep" /\ triggerClicks' = 1 /\ triggerClicks = 1
       /\ IsFailure(openResult') => ~trigger /\ triggerClicks' = 0
       /\ pc # "open_call" => triggerClicks' = triggerClicks]_vars

\* no trigger in the page: the failure is the response and nothing was clicked
C17_Witness ==
    /\ pc = "done"
    /\ ~trigger
    /\ openResult = TriggerNotFound
    /\ triggerClicks = 0
    /\ stages = <<"openDialog">>
    /\ attempt = 0
    /\ responses = <<TriggerNotFound>>

\* C18: openDialog called when the dialog container is absent returns a
\* failure and goes to no settle delay, so that no waitForDialog attempt
\* follows.  openDialog looks only for the trigger: with the trigger present
\* it clicks and sleeps whatever the state of the container.
C18_AbsentDialogFailsOpen ==
    [][(pc = "open_call" /\ dialog = NoElement)
       => IsFailure(openResult') /\ pc' = "open_return"]_vars

-----------------------------------------------------------------------------
(* Exceptions inside an attempt of waitForDialog, under SpecWait.          *)

\* the check that throws is evaluated in this attempt: every check before it
\* holds
CheckThrows ==
    /\ pc = "wait_attempt" /\ WaitLoopGuard
    /\ glitch \in 1..NumChecks
    /\ \A k \in 1..(glitch - 1) : CheckHolds(k)

LastThrew == waitLog # NoResult /\ waitLog.outcome = "threw"

\* C19: an attempt of waitForDialog in which a check throws returns nothing
\* to the caller and is one more failed attempt; when it was not the last
\* attempt the loop sleeps delayMs and performs the next attempt, which
\* returns ready when all seven checks pass; waitForDialog returns only from
\* an attempt in which all checks passed or after all maxRetries attempts.
C19_ExceptionsSwallowed ==
    [][/\ CheckThrows
          => /\ waitResult' = NoResult
             /\ pc' # "wait_return"
             /\ failedAttempts' = failedAttempts + 1
             /\ attempt < maxRetries
                => /\ pc' = "wait_sleep"
                   /\ attempt' = attempt
                   /\ waitSleeps' = waitSleeps + 1
                   /\ waitSlept' = waitSlept + delayMs
       /\ (pc = "wait_sleep" /\ LastThrew /\ pc' # "wait_sleep")
          => /\ pc' = "wait_attempt"
             /\ attempt' = attempt + 1
             /\ attempt' <= maxRetries
       /\ (pc = "wait_attempt" /\ LastThrew /\ WaitLoopGuard /\ AllSevenPass)
          => /\ pc' = "wait_return"
             /\ waitResult' = [success |-> TRUE, attempts |-> attempt,
                               timeInputsCount |-> CountInputs(rows)]
       /\ (pc # "wait_return" /\ pc' = "wait_return")
          => \/ IsOk(waitResult') /\ AllSevenPass /\ WaitLoopGuard
             \/ /\ IsFailure(waitResult')
                /\ ~WaitLoopGuard
                /\ HasMaxRetries
                   => attempt = maxRetries + 1 /\ failedAttempts = maxRetries]_vars

\* attempt 1 threw at the submit-button check, the loop slept, and attempt 2
\* finds the dialog ready
C19_Witness ==
    /\ pc = "wait_attempt" /\ attempt = 2 /\ WaitLoopGuard
    /\ waitLog = [outcome |-> "threw", check |-> 7]
    /\ failedAttempts = 1 /\ waitSleeps = 1
    /\ waitResult = NoResult
    /\ AllSevenPass

-----------------------------------------------------------------------------
(* Termination of fillWorkingHours, under FairSpec.                        *)

\* the number of sleeps of each kind so far
SleepsBounded ==
    /\ triggerClicks <= 1
    /\ waitSleeps <= (IF HasMaxRetries THEN maxRetries ELSE 0)
    /\ i <= Len(rows) + 1
    /\ submitClicks <= 1
    /\ closeSleeps <= closeMaxRetries

\* where each sleep starts and what follows it
SleepStep ==
    /\ pc' = "open_sleep" /\ pc # "open_sleep"
       => pc = "open_call" /\ triggerClicks' = triggerClicks + 1
    /\ pc' = "wait_sleep" /\ pc # "wait_sleep"
       => waitSleeps' = waitSleeps + 1 /\ attempt' = attempt
    /\ pc = "wait_sleep" /\ pc' # "wait_sleep" => attempt' = attempt + 1
    /\ pc' = "fill_sleep50" /\ pc # "fill_sleep50"
       => pc = "fill_loop" /\ i' = i
    /\ pc = "fill_sleep50" /\ pc' # "fill_sleep50"
       => pc' = "fill_sleep100" /\ i' = i
    /\ pc' = "fill_sleep100" /\ pc # "fill_sleep100"
       => pc \in {"fill_loop", "fill_sleep50"} /\ i' = i /\ i <= Len(rows)
    /\ pc = "fill_sleep100" /\ pc' # "fill_sleep100" => i' = i + 1
    /\ pc' = "submit_sleep" /\ pc # "submit_sleep"
       => submitClicks' = submitClicks + 1
    /\ pc' = "close_sleep" /\ pc # "close_sleep"
       => closeSleeps' = closeSleeps + 1 /\ closeAttempt' = closeAttempt
    /\ pc = "close_sleep" /\ pc' # "close_sleep"
       => closeAttempt' = closeAttempt + 1

\* C20: a call of fillWorkingHours, whatever the page does while the script
\* sleeps, ends with exactly one response, after at most one settle sleep of
\* openDialog, maxRetries sleeps of waitForDialog, one 50 ms and one 100 ms
\* sleep for each row, one settle sleep of submitForm and the configured
\* number of sleeps of waitForDialogClose.
C20_RunsToCompletion ==
    /\ [](SleepsBounded)
    /\ [][SleepStep]_vars
    /\ (pc = "fwh_call") ~> (pc = "done" /\ Len(responses) = 1)

\* a long run: waitForDialog and waitForDialogClose slept between all their
\* attempts, a row was filled, the dialog never closed, and the response was
\* sent
C20_Witness ==
    /\ pc = "done" /\ Len(responses) = 1
    /\ stages = StageOrder
    /\ impl = "modular"
    /\ triggerClicks = 1 /\ submitClicks = 1
    /\ waitSleeps = maxRetries - 1
    /\ i = Len(rows) + 1 /\ Len(rows) = MaxRows /\ filledCount = 1
    /\ closeSleeps = closeMaxRetries - 1 /\ IsFailure(closeResult)
    /\ responses[1].success

-----------------------------------------------------------------------------
(* Responses of the message listener, under Spec.                          *)

\* a response object: a boolean success with a message or an error
WellFormedResponse(resp) ==
    /\ "success" \in DOMAIN resp /\ resp.success \in BOOLEAN
    /\ "message" \in DOMAIN resp \/ "error" \in DOMAIN resp

\* C21: every message the listener received, whatever its action, has been
\* answered exactly once, by a well-formed response, when its handling is
\* over, and never more than once before.  The legacy listener's switch has
\* no default case: a message with another action than fillHours gets no
\* response.
C21_OneResponsePerRequest ==
    /\ Len(responses) <= 1
    /\ pc = "done" => Len(responses) = 1 /\ WellFormedResponse(responses[1])

-----------------------------------------------------------------------------
(* Overlapping calls of fillWorkingHours on one MeckanoFormFiller.  Each   *)
(* call runs without interruption from one await to the next; a message    *)
(* that arrives while a call sleeps starts another call on the same object. *)
(* Each call is followed up to its call of fillTimeInputs.                  *)

\* new ConstantDataProvider(startTime, endTime, humanize)
ProviderFor(td) == Constant(td.startTime, td.endTime, td.humanize)

NotCalled ==
    [pc |-> "idle", timeData |-> Null, attempt |-> 0, passed |-> NoResult,
     result |-> NoResult]

Returns(c, result) == [c EXCEPT !.pc = "returned", !.result = result]

\* waitForDialog from attempt a to its next sleep or to its return, and the
\* call of fillTimeInputs(this.dataProvider) that follows a ready dialog
WaitFrom(c, a) ==
    LET notReady == [success |-> FALSE, error |-> "Dialog not ready"]
        sleeps == [c EXCEPT !.pc = "wait_sleep", !.attempt = a]
    IN  IF ~(HasMaxRetries /\ a <= maxRetries) THEN Returns(c, notReady)
        ELSE CASE AttemptOutcome.outcome = "ready" ->
                    [c EXCEPT !.pc = "fill_call", !.attempt = a,
                              !.passed = dataProvider]
               [] AttemptOutcome.outcome = "failed" -> sleeps
               [] AttemptOutcome.outcome = "threw" ->
                    IF a < maxRetries THEN sleeps ELSE Returns(c, notReady)

\* the listener calls fillWorkingHours(request.data), which runs to the
\* sleep of openDialog
Arrive(r, td) ==
    /\ pc = "overlap"
    /\ pending[r].pc = "idle"
    /\ \A q \in 1..(r - 1) : pending[q].pc # "idle"
    /\ LET c == [pending[r] EXCEPT !.timeData = td]
       IN  IF td = Null
           THEN /\ pending' = [pending EXCEPT ![r] =
                      Returns(c, [success |-> FALSE,
                                  error |-> "Form filling failed"])]
                /\ UNCHANGED <<dataProvider, triggerClicks>>
           ELSE /\ dataProvider' = ProviderFor(td)
                /\ IF ~trigger
                   THEN /\ pending' = [pending EXCEPT ![r] =
                              Returns(c, [success |-> FALSE,
                                  error |-> "Dialog trigger element not found"])]
                        /\ UNCHANGED triggerClicks
                   ELSE /\ pending' = [pending EXCEPT ![r] =
                              [c EXCEPT !.pc = "open_sleep"]]
                        /\ triggerClicks' = triggerClicks + 1
    /\ UNCHANGED <<config, docVars, impl, pc, fillVars, classified,
                   popupVars, sample,
                   glitch, submitClicks, request, stages, openVars, waitVars,
                   submitVars, responses, fwhResult>>

\* the sleep of openDialog is over: openDialog returns success and
\* waitForDialog makes its first attempt
ResumeOpen(r) ==
    /\ pc = "overlap"
    /\ pending[r].pc = "open_sleep"
    /\ pending' = [pending EXCEPT ![r] = WaitFrom(@, 1)]
    /\ UNCHANGED <<config, docVars, impl, pc, dataProvider, fillVars,
                   classified, popupVars, sample, pipeVars>>

\* a sleep of waitForDialog is over: the next attempt
ResumeWait(r) ==
    /\ pc = "overlap"
    /\ pending[r].pc = "wait_sleep"
    /\ pending' = [pending EXCEPT ![r] = WaitFrom(@, @.attempt + 1)]
    /\ UNCHANGED <<config, docVars, impl, pc, dataProvider, fillVars,
                   classified, popupVars, sample, pipeVars>>

\* the page changes the dialog while a call sleeps
PageChangesBetween(d) ==
    /\ pc = "overlap"
    /\ \E r \in DOMAIN pending : pending[r].pc \in {"open_sleep", "wait_sleep"}
    /\ <<dialog, view, table, submit>> # <<d.dialog, d.view, d.table, d.submit>>
    /\ dialog' = d.dialog
    /\ view' = d.view
    /\ table' = d.table
    /\ submit' = d.submit
    /\ UNCHANGED <<config, trigger, rows, rows0, impl, pc, dataProvider,
                   fillVars, harnessVars, pipeVars>>

OverlapData ==
    {[startTime |-> T0900, endTime |-> T1800, humanize |-> FALSE],
     [startTime |-> T0815, endTime |-> T1745, humanize |-> TRUE],
     Null}

InitOverlap ==
    /\ impl \in {"modular", "legacy"}
    /\ config = PipelineConfig
    /\ trigger \in BOOLEAN
    /\ InitDoc(PipelineDocs)
    /\ rows = <<EmptyRow>>
    /\ rows0 = rows
    /\ pc = "overlap"
    /\ dataProvider = Null
    /\ InitFillVars
    /\ classified = NoResult
    /\ sample = NoResult
    /\ pending = [r \in 1..MaxRequests |-> NotCalled]
    /\ InitPopupVars
    /\ InitPipeVars
    /\ glitch \in {0, 5}
    /\ waitArgs = EmptyObject

NextOverlap ==
    \/ \E r \in 1..MaxRequests, td \in OverlapData : Arrive(r, td)
    \/ \E r \in 1..MaxRequests : ResumeOpen(r)
    \/ \E r \in 1..MaxRequests : ResumeWait(r)
    \/ \E d \in PipelineDocs : PageChangesBetween(d)

SpecOverlap == InitOverlap /\ [][NextOverlap]_vars

\* C22: every call of fillWorkingHours passes to fillTimeInputs the data
\* source made from its own startTime, endTime and humanize.  The data source
\* is kept in the field this.dataProvider of the one MeckanoFormFiller: a call
\* that arrives while another sleeps replaces it.
C22_OwnDataSource ==
    \A r \in DOMAIN pending :
        pending[r].pc = "fill_call"
        => pending[r].passed = ProviderFor(pending[r].timeData)

-----------------------------------------------------------------------------
(* fillTimeInputs while somebody else edits the rows.  The script runs      *)
(* without interruption from one await to the next, so the other editor     *)
(* writes only while the script is in sleep(50) or sleep(100).              *)

EditedValues == {Blank, T1745}

\* the other editor sets a field of a row the pass has not finished
ExternalEdit(r, field, v) ==
    /\ pc \in {"fill_sleep50", "fill_sleep100"}
    /\ r \in i..Len(rows)
    /\ rows[r][field] # NoElement
    /\ rows[r][field].value # v
    /\ rows' = [rows EXCEPT ![r][field] = [value |-> v]]
    /\ UNCHANGED <<config, trigger, dialog, view, table, submit, rows0, impl,
                   pc, dataProvider, fillVars, harnessVars, pipeVars>>

EditRows ==
    {Row(Monday, NoElement, Select("0"), Input(Empty), Input(Empty)),
     Row(Monday, NoElement, Select("0"), Input(T0815), Input(Empty)),
     Row(Monday, NoElement, Select("0"), Input(T0815), Input(T1745)),
     Row(Monday, NoElement, Select("0"), NoElement, Input(Empty)),
     Row(Friday, NoElement, NoElement, Input(Empty), Input(Empty)),
     Row(Span(<<"x", "x">>), NoElement, NoElement, Input(Empty), Input(Empty))}

InitEdit ==
    /\ config = DefaultConfig
    /\ trigger = TRUE
    /\ InitDoc({ReadyDoc})
    /\ rows \in RowSeqs(EditRows, MaxRows)
    /\ rows0 = rows
    /\ impl \in {"modular", "legacy"}
    /\ pc = "fill_call"
    /\ dataProvider = Constant(T0900, T1800, FALSE)
    /\ InitFillVars
    /\ classified = NoResult
    /\ pending = <<>>
    /\ InitPopupVars
    /\ sample = NoResult
    /\ InitPipeVars
    /\ glitch = 0
    /\ waitArgs = EmptyObject

NextEdit ==
    \/ FillPass
    \/ \E r \in 1..MaxRows, field \in {"checkIn", "checkOut"},
          v \in EditedValues : ExternalEdit(r, field, v)

SpecEdit == InitEdit /\ [][NextEdit]_vars


\* a step of the script, not of the other editor
ScriptStep == <<pc, i, events>>' # <<pc, i, events>>

\* the script writes the field in this step: it dispatches events on it
WrittenNow(r, field) ==
    \E k \in (Len(events) + 1)..Len(events') :
        events'[k].row = r /\ events'[k].field = field

\* no step of the script changes a field whose value is kept(value) when the
\* step is taken, and every field the script writes is not kept(value) then
NoClobber(kept(_)) ==
    ScriptStep =>
      \A r \in 1..Len(rows), field \in {"checkIn", "checkOut"} :
        rows[r][field] # NoElement =>
          /\ kept(rows[r][field].value) => /\ rows'[r][field] = rows[r][field]
                                           /\ ~WrittenNow(r, field)
          /\ rows'[r][field] # rows[r][field] => WrittenNow(r, field)

\* C23 as stated: while another editor writes fields during the script's
\* sleeps, the script never overwrites a value that is non-empty
\* (length >= 1) at the moment of its write.
C23_NoClobberNonEmpty == [][NoClobber(NonEmpty)]_vars

\* C23, amended: while another editor writes fields during the script's
\* sleeps, the script never overwrites a value that is not blank (non-empty
\* after trimming white space) at the moment of its write: it decides and
\* writes each field in one step, on the value the field has then.
C23_NoClobberNonBlank == [][NoClobber(NonBlank)]_vars

\* the other editor filled checkOut while the script slept between the two
\* fields of the row; the script wrote checkIn only
C23_Witness ==
    /\ pc = "fill_sleep100" /\ i = 1
    /\ rows0[1].checkIn = Input(Empty) /\ rows0[1].checkOut = Input(Empty)
    /\ rows[1].checkIn = Input(T0900) /\ rows[1].checkOut = Input(T1745)
    /\ events = Dispatched(1, "checkIn", T0900)

-----------------------------------------------------------------------------
(* The order of the checks of one attempt, under SpecWait.                 *)

CheckOrder ==
    <<"dialog present", "dialog visible", "attendance view present",
      "attendance view visible", "time table present", "time input present",
      "submit control present">>

\* check k is the first that does not hold, and no check up to it throws
FailsFirst(k) ==
    /\ \A j \in 1..(k - 1) : CheckHolds(j)
    /\ ~CheckHolds(k)
    /\ glitch \notin 1..k

\* C24: in an attempt of waitForDialog whose first failing check is check k of
\* the order dialog present, dialog visible, view present, view visible, table
\* present, a time input present, submit present, the attempt ends at check k:
\* it is logged as failed at k even when a later check would throw, nothing is
\* returned, and one sleep follows, after which the attempt number goes up by
\* one.
C24_OrderedShortCircuit ==
    [][/\ \A k \in 1..Len(CheckOrder) :
            (pc = "wait_attempt" /\ WaitLoopGuard /\ FailsFirst(k))
            => /\ waitLog' = [outcome |-> "failed", check |-> k]
               /\ pc' = "wait_sleep"
               /\ waitSleeps' = waitSleeps + 1
               /\ waitSlept' = waitSlept + delayMs
               /\ attempt' = attempt
               /\ waitResult' = NoResult
       /\ (pc = "wait_sleep" /\ pc' # "wait_sleep")
          => /\ pc' = "wait_attempt"
             /\ attempt' = attempt + 1
             /\ waitSleeps' = waitSleeps]_vars

\* the attendance view is absent and the submit-control check would throw:
\* the attempt ended at check 3 and the loop sleeps
C24_Witness ==
    /\ pc = "wait_sleep"
    /\ waitLog = [outcome |-> "failed", check |-> 3]
    /\ dialog # NoElement /\ DialogVisible(dialog) /\ view = NoElement
    /\ glitch = 7
    /\ waitSleeps = attempt

-----------------------------------------------------------------------------
(* What the document is when waitForDialog reports ready, under SpecWait.  *)

\* all the conditions of readiness hold together in the document as it is
ReadyTogether ==
    /\ dialog # NoElement
    /\ dialog.style = "block" \/ dialog.computed # "none"
    /\ view # NoElement
    /\ view.style # "none" /\ view.computed # "none"
    /\ table # NoElement /\ table.within = "view"
    /\ \E r \in 1..Len(rows) :
          rows[r].checkIn # NoElement \/ rows[r].checkOut # NoElement
    /\ submit # NoElement

\* C25: the step in which waitForDialog produces its ready result is taken
\* in a document in which all the conditions of readiness hold together, and
\* the document is the same after the step: the result is made in the
\* attempt that made the checks, with no sleep and no change of the page in
\* between, however the page changed between the attempts before.
C25_ReadyIsSimultaneous ==
    [][(IsOk(waitResult') /\ ~IsOk(waitResult))
       => /\ pc = "wait_attempt" /\ pc' = "wait_return"
          /\ ReadyTogether
          /\ UNCHANGED docVars
          /\ waitResult'.attempts = attempt
          /\ waitResult'.timeInputsCount = CountInputs(rows)]_vars

\* ready at the second attempt, after the page completed the dialog during
\* the sleep
C25_Witness ==
    /\ WaitReturned /\ IsOk(waitResult)
    /\ waitResult.attempts = 2 /\ failedAttempts = 1 /\ waitSleeps = 1
    /\ ReadyTogether


\* C26: waitForDialog with N >= 1 attempts begins at most N - 1 sleeps, and
\* begins none from its last attempt.  An attempt that ends at a failing
\* check sleeps before `continue` whatever its number: only an attempt that
\* ends in the catch skips the sleep when it is the last.
C26_NoSleepAfterLastAttempt ==
    /\ [](HasMaxRetries /\ maxRetries >= 1 => waitSleeps <= maxRetries - 1)
    /\ [][(pc = "wait_attempt" /\ HasMaxRetries /\ attempt = maxRetries)
          => pc' # "wait_sleep"]_vars


\* C27: waitForDialog called with a configuration that gives no
\* waitForDialogMaxRetries (no dialogManager section, or a section without the
\* key) makes at least one attempt before it returns not-ready.  The code
\* reads dialogConfig.waitForDialogMaxRetries with no default: the loop
\* condition attempt <= undefined is false at once.
C27_DefaultsGiveAnAttempt ==
    (WaitReturned /\ impl = "modular"
       /\ ~Has(dialogConfig, "waitForDialogMaxRetries"))
    => (IsOk(waitResult) \/ failedAttempts >= 1)

-----------------------------------------------------------------------------
(* The events fillRowInputs dispatches, under SpecFill.                    *)

\* the events dispatched in this step
NewEvents == SubSeq(events', Len(events) + 1, Len(events'))

Fields == {"checkIn", "checkOut"}

\* what one step does to the fields and the events
NotifiedStep ==
    /\ \/ NewEvents = <<>>
       \/ \E field \in Fields :
             /\ rows[i][field] # NoElement
             /\ ~isInputFilled(rows[i][field])
             /\ NewEvents =
                  <<[row |-> i, field |-> field, type |-> "input",
                     bubbles |-> TRUE, value |-> rows'[i][field].value],
                    [row |-> i, field |-> field, type |-> "change",
                     bubbles |-> TRUE, value |-> rows'[i][field].value]>>
             /\ rows'[i][field].value = timeData'[IF field = "checkIn"
                                                  THEN "checkin" ELSE "checkout"]
    /\ \A r \in 1..Len(rows), field \in Fields :
          rows'[r][field] # rows[r][field] => WrittenNow(r, field)
    /\ WrittenNow(i, "checkIn") => pc = "fill_loop" /\ pc' = "fill_sleep50"
    /\ WrittenNow(i, "checkOut")
       => \/ pc = "fill_sleep50"
          \/ pc = "fill_loop" /\ isInputFilled(rows[i].checkIn)

\* in the first pass the events come in pairs 'input', 'change' on one field
\* with one value, each field has at most one pair, and the pair of checkIn
\* precedes the pair of checkOut of the same row
NotifiedInOrder ==
    run = 1 =>
      /\ Len(events) % 2 = 0
      /\ \A k \in 1..Len(events) :
            k % 2 = 1 =>
              /\ events[k].type = "input" /\ events[k].bubbles
              /\ events[k + 1] = [events[k] EXCEPT !.type = "change"]
      /\ \A k, l \in 1..Len(events) :
            (k < l /\ events[k].row = events[l].row /\ k % 2 = 1 /\ l % 2 = 1)
            => events[k].field = "checkIn" /\ events[l].field = "checkOut"

\* C28: each field fillRowInputs writes gets, after the assignment, one
\* 'input' event and then one 'change' event, both carrying the assigned
\* value; a field that is not written gets no event and every field whose
\* value changes gets them; when both fields of a row are written, checkIn is
\* written and notified first, the 50 ms sleep follows, then checkOut.
C28_ChangeNotification == [](NotifiedInOrder) /\ [][NotifiedStep]_vars

\* both fields of an empty row written from the window 09:00-18:00
C28_Witness ==
    /\ pc = "fill_sleep100" /\ run = 1 /\ i = 1
    /\ rows0[1].checkIn = Input(Empty) /\ rows0[1].checkOut = Input(Empty)
    /\ events = Dispatched(1, "checkIn", T0900) \o Dispatched(1, "checkOut", T1800)
    /\ rows[1].checkIn = Input(T0900) /\ rows[1].checkOut = Input(T1800)

-----------------------------------------------------------------------------
(* waitForDialogClose(maxRetries, delayMs), called by submitForm after the  *)
(* click and the 500 ms sleep, while the page changes the dialog.          *)

CloseConfigs ==
    {[DEFAULT_RETRY_COUNT |-> n, DEFAULT_DELAY_MS |-> d] :
        n \in 0..MaxAttempts, d \in Delays}

CloseDocs ==
    {Doc(NoElement, NoElement, NoElement, NoElement),
     Doc(Hidden, VisibleDialog, TableIn("view"), Button(FALSE)),
     Doc(Element("", "block"), VisibleDialog, TableIn("view"), Button(FALSE)),
     Doc(Element("block", "none"), VisibleDialog, TableIn("view"), Button(FALSE)),
     ReadyDoc}

\* getComputedStyle starts or stops throwing
PageGlitchClose(g) ==
    /\ pc \in {"submit_sleep", "close_sleep"}
    /\ glitch # g
    /\ glitch' = g
    /\ UNCHANGED <<config, docVars, impl, pc, dataProvider, fillVars,
                   harnessVars, triggerClicks, submitClicks, request, stages,
                   openVars, waitVars, submitVars, responses, fwhResult>>

InitClose ==
    /\ impl \in {"modular", "legacy"}
    /\ config \in IF impl = "modular" THEN CloseConfigs \cup {EmptyObject}
                  ELSE {EmptyObject}
    /\ trigger = TRUE
    /\ InitDoc({ReadyDoc})
    /\ rows = <<CompleteRow>>
    /\ rows0 = rows
    /\ pc = "submit_sleep"
    /\ dataProvider = Constant(T0900, T1800, FALSE)
    /\ InitFillVars
    /\ classified = NoResult
    /\ pending = <<>>
    /\ InitPopupVars
    /\ sample = NoResult
    /\ triggerClicks = 1
    /\ submitClicks = 1
    /\ request = Null
    /\ stages = StageOrder
    /\ openResult = NoResult
    /\ attempt = 0
    /\ waitSleeps = 0
    /\ waitSlept = 0
    /\ failedAttempts = 0
    /\ fwhResult = NoResult
    /\ waitLog = NoResult
    /\ waitResult = NoResult
    /\ closeAttempt = 0
    /\ closeSleeps = 0
    /\ closeResult = NoResult
    /\ submitResult = NoResult
    /\ responses = <<>>
    /\ glitch = 0
    /\ waitArgs = EmptyObject

NextClose ==
    \/ SubmitAfterSleep
    \/ CloseAttempt
    \/ CloseAfterSleep
    \/ CloseExhausted
    \/ \E d \in CloseDocs : PageChanges(d)
    \/ \E g \in {0, NumChecks + 1} : PageGlitchClose(g)

SpecClose == InitClose /\ [][NextClose]_vars

CloseReturned == pc = "close_return"

\* the dialog is absent or, by the test of waitForDialogClose, not visible
SeenClosed == dialog = NoElement \/ ~DialogVisible(dialog)

\* one step of waitForDialogClose
CloseStep ==
    /\ (pc = "close_attempt" /\ closeAttempt <= closeMaxRetries)
       => /\ (SeenClosed /\ ~CloseCheckThrows)
             => /\ IsOk(closeResult') /\ pc' = "close_return"
                /\ UNCHANGED <<closeAttempt, closeSleeps>>
          /\ CloseCheckThrows
             => /\ closeResult' = NoResult /\ pc' = "close_attempt"
                /\ closeAttempt' = closeAttempt + 1
                /\ closeSleeps' = closeSleeps
          /\ (~SeenClosed /\ ~CloseCheckThrows)
             => /\ closeResult' = NoResult /\ pc' # "close_return"
                /\ IF closeAttempt < closeMaxRetries
                   THEN /\ pc' = "close_sleep"
                        /\ closeSleeps' = closeSleeps + 1
                        /\ closeAttempt' = closeAttempt
                   ELSE /\ closeSleeps' = closeSleeps
                        /\ closeAttempt' = closeAttempt + 1
    /\ (pc = "close_sleep" /\ pc' # "close_sleep")
       => pc' = "close_attempt" /\ closeAttempt' = closeAttempt + 1
    /\ (IsOk(closeResult') /\ ~IsOk(closeResult))
       => SeenClosed /\ UNCHANGED docVars /\ closeAttempt <= closeMaxRetries
    /\ (IsFailure(closeResult') /\ ~IsFailure(closeResult))
       => closeAttempt = closeMaxRetries + 1
    /\ CloseReturned => UNCHANGED <<closeAttempt, closeSleeps, closeResult>>

\* C29: waitForDialogClose returns success from the first attempt that finds
\* the dialog absent or not visible, and only from such an attempt; an attempt
\* whose check throws returns nothing and the next attempt follows; it returns
\* failure only after maxRetries attempts, and it never begins more than
\* maxRetries - 1 sleeps.
C29_ClosePoll ==
    /\ [](closeMaxRetries >= 1 => closeSleeps <= closeMaxRetries - 1)
    /\ [][CloseStep]_vars

\* three attempts, none found the dialog closed, and one of them threw: only
\* one sleep was begun
C29_Witness ==
    /\ CloseReturned /\ IsFailure(closeResult)
    /\ closeMaxRetries = 3 /\ closeAttempt = 4
    /\ closeSleeps = 1

-----------------------------------------------------------------------------
(* Rows for which the data source gives nothing, under SpecFill.           *)

\* the row the loop is at is a working-day row that is not complete, and the
\* data source returns nothing for it or throws
NoTimeData ==
    /\ pc = "fill_loop" /\ i <= Len(rows)
    /\ parseDateRow(rows[i]) # Null
    /\ ~SkipDecision(parseDateRow(rows[i])).skip
    /\ ~isRowComplete(rows[i])
    /\ dataProvider.kind \in {"none", "abstract"}

\* C30: for a working-day row that is not complete, when getTimeData returns
\* nothing or throws, the error count goes up by one and the filled and
\* skipped counts stay, no field of any row changes, no event is dispatched,
\* the loop goes on to the next row at once, and the pass, when it returns,
\* returns success = true with these errors in its details.
C30_NoTimeDataIsRowError ==
    /\ [][NoTimeData
          => /\ errorCount' = errorCount + 1
             /\ filledCount' = filledCount /\ skippedCount' = skippedCount
             /\ rows' = rows
             /\ events' = events
             /\ i' = i + 1 /\ pc' = "fill_loop"
             /\ fillResult' = NoResult]_vars
    /\ []((Returned /\ dialog # NoElement /\ table # NoElement)
          => /\ fillResult.success
             /\ fillResult.details.errors
                  >= Cardinality({k \in 1..Len(log) :
                                    log[k].outcome \in {"no-data", "error"}}))

\* two working-day rows and the abstract DataProvider, whose getTimeData
\* throws: two errors, nothing written, success
C30_Witness ==
    /\ Returned /\ fillResult.success /\ run = 1
    /\ dataProvider.kind = "abstract"
    /\ Len(rows) = 2
    /\ fillResult.details.errors = 2 /\ fillResult.details.filled = 0
    /\ log[1].outcome = "error" /\ log[2].outcome = "error"
    /\ rows = rows0 /\ events = <<>>

-----------------------------------------------------------------------------
(* utils.humanizeTime on every time of the day.                            *)

\* String(n) for any integer n
StringOfInt(n) == IF n < 0 THEN <<"-">> \o String(0 - n) ELSE String(n)

\* Math.floor(a / b) for b > 0
FloorDiv(a, b) == IF a >= 0 THEN a \div b ELSE 0 - ((b - 1 - a) \div b)

\* a % b of the language: the remainder has the sign of a
Remainder(a, b) == IF a >= 0 THEN a % b ELSE 0 - ((0 - a) % b)

humanizeTime(baseTime, randomOffset) ==
    LET parts == SplitColon(baseTime)
        totalMinutes == Number(parts[1]) * 60 + Number(parts[2])
        newTotalMinutes == totalMinutes + randomOffset
        newHours == FloorDiv(newTotalMinutes, 60)
        newMinutes == Remainder(newTotalMinutes, 60)
    IN  PadStart2(StringOfInt(newHours)) \o <<":">>
            \o PadStart2(StringOfInt(newMinutes))

\* the call in which Math.floor(Math.random() * 41) - 20 is v
HumanizeBy(v) ==
    /\ pc = "humanize"
    /\ v \in Variations
    /\ sample' = [base |-> sample.base,
                  randomOffset |-> v,
                  result |-> humanizeTime(sample.base, v)]
    /\ pc' = "humanized"
    /\ UNCHANGED <<config, docVars, impl, dataProvider, fillVars, classified,
                   pending, popupVars, pipeVars>>

HumanizeTime == \E v \in Variations : HumanizeBy(v)

InitHumanize ==
    /\ config = DefaultConfig
    /\ trigger = TRUE
    /\ InitDoc({ReadyDoc})
    /\ rows = <<>>
    /\ rows0 = rows
    /\ impl = "modular"
    /\ pc = "humanize"
    /\ dataProvider = Constant(T0900, T1800, TRUE)
    /\ InitFillVars
    /\ classified = NoResult
    /\ pending = <<>>
    /\ InitPopupVars
    /\ sample \in {[base |-> t] : t \in ValidTimes}
    /\ InitPipeVars
    /\ glitch = 0
    /\ waitArgs = EmptyObject

NextHumanize == HumanizeTime

SpecHumanize == InitHumanize /\ [][NextHumanize]_vars

\* C31: for every base time of the day, every result of
\* utils.humanizeTime(baseTime) is a zero-padded HH:MM time with hours in
\* 00..23 and minutes in 00..59, within 20 minutes of the base: the sum is
\* clamped into [00:00, 23:59], it neither passes midnight nor goes negative.
C31_HumanizeTimeClamps ==
    pc = "humanized" =>
        /\ ZeroPaddedTime(sample.result)
        /\ HoursOf(sample.result) <= 23
        /\ MinutesOf(sample.result) <= 59
        /\ Abs(MinuteOfDay(sample.result) - MinuteOfDay(sample.base)) <= 20

-----------------------------------------------------------------------------
(* The popup: up to MaxClicks clicks on the Fill button, and the answers   *)
(* of the content script.                                                  *)

PopupTimes == {Empty, T0900, T1800}

Tabs == {[url |-> "app.meckano.co.il"], [url |-> "example.com"], NoElement,
         Throws}

ReportedCounts ==
    {[filled |-> f, skipped |-> k, errors |-> e] :
        f \in 0..MaxRows, k \in 0..MaxRows, e \in 0..1}

\* what the content script passes to sendResponse for a fillHours message
ContentResponses ==
    {FinalResult(im, d) : im \in {"modular", "legacy"}, d \in ReportedCounts}
    \cup {[success |-> FALSE, error |-> e] :
             e \in {"Dialog not ready", "Form filling failed"}}

InitPopup ==
    /\ config = DefaultConfig
    /\ trigger = TRUE
    /\ InitDoc({ReadyDoc})
    /\ rows = <<>>
    /\ rows0 = rows
    /\ impl = "modular"
    /\ pc = "idle"
    /\ dataProvider = Constant(T0900, T1800, FALSE)
    /\ InitFillVars
    /\ classified = NoResult
    /\ sample = NoResult
    /\ pending = <<>>
    /\ InitPipeVars
    /\ glitch = 0
    /\ waitArgs = EmptyObject
    /\ popup \in {[startTime |-> s, endTime |-> e, humanize |-> h,
                   disabled |-> FALSE,
                   status |-> showStatus("", "info", <<>>)] :
                     s \in PopupTimes, e \in PopupTimes, h \in BOOLEAN}
    /\ popupCalls = [c \in 1..MaxClicks |-> NotClicked]
    /\ ctorCheck = "tabs_query"
    /\ tab \in Tabs
    /\ sent = <<>>

NextPopup ==
    \/ CtorCheckResumes
    \/ \E c \in 1..MaxClicks : Click(c)
    \/ \E c \in 1..MaxClicks : AfterCompatibility(c)
    \/ \E c \in 1..MaxClicks : SendMessage(c)
    \/ \E c \in 1..MaxClicks, response \in ContentResponses :
          ResponseArrives(c, response)
    \/ \E c \in 1..MaxClicks : SendFails(c)

SpecPopup == InitPopup /\ [][NextPopup]_vars

\* C32: the popup never has two fillHours requests outstanding at once: of the
\* messages it sent, at most one is still waiting for its response or
\* failure, whenever the clicks were made (a click made while an earlier
\* call's tab-compatibility query is pending included).
C32_SingleFlight == Cardinality(Outstanding) <= 1

-----------------------------------------------------------------------------
(* Properties of the counters of fillTimeInputs, under SpecFill.           *)

Counted == filledCount + skippedCount + errorCount

\* one of the three counters goes up by one and the other two stay
OneCounterUp ==
    \/ /\ filledCount' = filledCount + 1
       /\ skippedCount' = skippedCount /\ errorCount' = errorCount
    \/ /\ skippedCount' = skippedCount + 1
       /\ filledCount' = filledCount /\ errorCount' = errorCount
    \/ /\ errorCount' = errorCount + 1
       /\ filledCount' = filledCount /\ skippedCount' = skippedCount

\* the rows the pass is done with
RowsDone == IF pc = "fill_sleep100" THEN i ELSE i - 1

RowsDoneAfter == IF pc' = "fill_sleep100" THEN i' ELSE i' - 1

CountStep ==
    IF pc = "fill_call"
    THEN filledCount' = 0 /\ skippedCount' = 0 /\ errorCount' = 0
    ELSE IF RowsDoneAfter = RowsDone + 1
    THEN OneCounterUp
    ELSE UNCHANGED <<filledCount, skippedCount, errorCount>>

\* C33: in the modular and in the legacy fillTimeInputs, every row the pass
\* is done with has added one to exactly one of filledCount, skippedCount
\* and errorCount, no counter changes otherwise, and a pass that returns
\* success reports the three counters, whose sum is the number of data rows.
C33_CountConservation ==
    /\ [](/\ pc \in {"fill_loop", "fill_sleep50", "fill_sleep100"}
             => Counted = RowsDone
          /\ (Returned /\ fillResult.success)
             => /\ fillResult.details = [filled |-> filledCount,
                                         skipped |-> skippedCount,
                                         errors |-> errorCount]
                /\ Counted = Len(rows))
    /\ [][CountStep]_vars

\* a legacy pass over a complete working row and a row it filled
C33_Witness ==
    /\ Returned /\ fillResult.success
    /\ impl = "legacy"
    /\ Len(rows) = 2
    /\ \E r \in 1..2 : isRowComplete(rows0[r]) /\ log[r].outcome = "error"
    /\ fillResult.details = [filled |-> 1, skipped |-> 0, errors |-> 1]

-----------------------------------------------------------------------------
(* Rows counted as filled, under SpecFill.                                 *)

DataFor(td, field) == IF field = "checkIn" THEN td.checkin ELSE td.checkout

\* the input was assigned value during the pass: it holds it, and its input
\* event carries it
Assigned(r, field, value) ==
    /\ rows[r][field].value = value
    /\ \E k \in EventsOn(r) :
          /\ events[k].field = field /\ events[k].type = "input"
          /\ events[k].value = value

IsEmpty(v) == v = <<>>
IsBlank(v) == Trim(v) = <<>>

FilledMeansWritten(empty(_)) ==
    run = 1 =>
      \A r \in 1..Len(log) : log[r].outcome = "filled" =>
        \A td \in getTimeData(dataProvider) : td \notin {Null, Throws} =>
          /\ \E field \in InputFields :
                /\ empty(rows0[r][field].value)
                /\ Assigned(r, field, DataFor(td, field))
          /\ (NonEmpty(td.checkin) /\ NonEmpty(td.checkout))
             => NonEmpty(rows[r].checkIn.value) /\ NonEmpty(rows[r].checkOut.value)
          /\ EventsOn(r) # {}

\* C34 as stated: a row counted as filled had an input that was empty (of
\* length 0) when checked and was assigned the data source's value during
\* the pass; with non-empty data both its inputs are non-empty afterwards;
\* it never has zero writes.
C34_FilledMeansWritten == FilledMeansWritten(IsEmpty)

\* C34, amended: a row counted as filled had an input that was blank (empty
\* after trimming white space) when checked and was assigned the data
\* source's value during the pass; with non-empty data both its inputs are
\* non-empty afterwards; it never has zero writes.
C34_FilledMeansWrittenBlank == FilledMeansWritten(IsBlank)

\* a row with a white-space checkIn and a filled checkOut: one write
C34_Witness ==
    /\ run = 1 /\ Returned
    /\ dataProvider = Constant(T0900, T1800, FALSE)
    /\ \E r \in 1..Len(log) :
          /\ log[r].outcome = "filled"
          /\ rows0[r].checkIn = Input(Blank) /\ rows0[r].checkOut = Input(T1745)
          /\ rows[r].checkIn = Input(T0900) /\ rows[r].checkOut = Input(T1745)
          /\ Cardinality(EventsOn(r)) = 2

-----------------------------------------------------------------------------
(* The submit stage after the fill pass, under Spec.                       *)

SubmitControlUsable ==
    dialog # NoElement /\ submit # NoElement /\ ~submit.disabled

\* a successful fill pass, whatever its counts, is followed by the call of
\* submitForm
FillThenSubmitStage ==
    (pc = "fill_return" /\ IsOk(fillResult))
    => /\ pc' = "submit_call"
       /\ stages' = Append(stages, "submitForm")
       /\ fwhResult' = fwhResult

SubmitAlwaysClicks == pc = "submit_call" => submitClicks' = submitClicks + 1

SubmitClicksIfUsable ==
    pc = "submit_call" =>
       IF SubmitControlUsable
       THEN submitClicks' = submitClicks + 1
       ELSE submitClicks' = submitClicks /\ IsFailure(submitResult')

\* C35 as stated: whenever fillTimeInputs returns success, whatever the
\* counts, fillWorkingHours calls submitForm next and the submit control is
\* clicked.
C35_SubmitWhateverCounts ==
    [][FillThenSubmitStage /\ SubmitAlwaysClicks]_vars

\* C35, amended: whenever fillTimeInputs returns success, whatever the
\* counts, fillWorkingHours calls submitForm next; the submit control is
\* clicked if the dialog and an enabled submit control are in the document
\* at that moment, and otherwise submitForm fails without a click.
C35_SubmitStageWhateverCounts ==
    [][FillThenSubmitStage /\ SubmitClicksIfUsable]_vars

\* nothing was filled, one row failed, and the submit control was clicked
C35_Witness ==
    /\ IsOk(fillResult)
    /\ fillResult.details.filled = 0
    /\ fillResult.details.errors > 0
    /\ stages = StageOrder
    /\ submitClicks = 1

-----------------------------------------------------------------------------
(* The response after the submit click, under Spec.                        *)

\* what the caller gets after a submitForm that returned success: made of
\* the implementation and the counts of the fill pass alone
ResponseAfterSubmit ==
    IF impl = "legacy"
    THEN [success |-> TRUE,
          message |-> "Successfully filled and submitted dialog form!"]
    ELSE [success |-> TRUE,
          message |-> "Successfully filled and submitted timesheet!",
          details |-> [filled |-> fillResult.details.filled,
                       skipped |-> fillResult.details.skipped,
                       errors |-> fillResult.details.errors,
                       submitted |-> TRUE]]

\* C36: once submitForm returned success, with the dialog's closure confirmed
\* or with the warning that it stayed open, fillWorkingHours returns and the
\* caller receives the same response: success, the same message and, in the
\* modular code, details with the counts of the fill pass and submitted =
\* true; the warning and the message of submitForm are not in it.
C36_ResponseHidesClosure ==
    (pc \in {"fwh_return", "done"} /\ IsOk(submitResult)) =>
       /\ closeResult # NoResult
       /\ Has(submitResult, "warning") <=> IsFailure(closeResult)
       /\ fwhResult = ResponseAfterSubmit
       /\ ~Has(fwhResult, "warning")
       /\ fwhResult.message # submitResult.message
       /\ pc = "done" => responses = <<ResponseAfterSubmit>>

\* the dialog stayed open after the click, and the caller was told success
C36_Witness ==
    /\ pc = "done"
    /\ impl = "modular"
    /\ IsFailure(closeResult)
    /\ Has(submitResult, "warning")
    /\ responses[1].success /\ responses[1].details.submitted
    /\ responses[1].details.filled = 1

-----------------------------------------------------------------------------
(* getTimeData on windows that the popup's validation admits.              *)

WindowStarts == {0, 540, 1395}
WindowLengths == {1, 40, 41, 44}

\* the windows the popup sends: validateTimeInput returned true
Windows ==
    {w \in {[startTime |-> FormatTime(a), endTime |-> FormatTime(a + d)] :
               a \in WindowStarts, d \in WindowLengths} :
        validateTimeInput(w)}

InitWindow ==
    /\ config = DefaultConfig
    /\ trigger = TRUE
    /\ InitDoc({ReadyDoc})
    /\ rows = <<>>
    /\ rows0 = rows
    /\ impl = "modular"
    /\ pc = "provider"
    /\ dataProvider \in {Constant(w.startTime, w.endTime, h) :
                            w \in Windows, h \in BOOLEAN}
    /\ InitFillVars
    /\ classified = NoResult
    /\ pending = <<>>
    /\ InitPopupVars
    /\ sample = [configured |-> dataProvider, n |-> 0]
    /\ InitPipeVars
    /\ glitch = 0
    /\ waitArgs = EmptyObject

NextWindow == GetTimeData

SpecWindow == InitWindow /\ [][NextWindow]_vars

\* the configured checkout minus the configured checkin, in minutes
ConfiguredLength ==
    MinuteOfDay(sample.configured.checkoutTime)
        - MinuteOfDay(sample.configured.checkinTime)

Inverted(td) == MinuteOfDay(td.checkout) <= MinuteOfDay(td.checkin)

\* C37: with humanize, a configured window longer than 40 minutes gives only
\* pairs whose checkout is strictly later than their checkin, and a
\* configured window of 40 minutes or less, which the popup's validation
\* admits when the end is after the start, has among its possible results a
\* pair whose checkout is not later than its checkin.
C37_WindowOrdering ==
    sample.configured.humanize =>
       /\ (ConfiguredLength > 40 /\ Has(sample, "returned"))
          => ~Inverted(sample.returned)
       /\ (ConfiguredLength <= 40 /\ sample.n = 0 /\ pc = "provider")
          => \E td \in getTimeData(sample.configured) : Inverted(td)

\* 23:15-23:55 came back as 23:35-23:35
C37_Witness ==
    /\ pc = "provider" /\ sample.n >= 1
    /\ sample.configured = Constant(FormatTime(1395), FormatTime(1435), TRUE)
    /\ sample.v1 = 20 /\ sample.v2 = 0 - 20
    /\ sample.returned.checkin = sample.returned.checkout
    /\ Inverted(sample.returned)

-----------------------------------------------------------------------------
(* The legacy and the modular fillTimeInputs on the same document: the     *)
(* legacy pass runs, the document is put back as it was, and the modular   *)
(* pass runs.                                                              *)

\* the legacy pass returned: its outcome is kept, the rows are as loaded
\* again and the modular FormManager is called
SwitchImplementation ==
    /\ pc = "fill_return" /\ impl = "legacy"
    /\ prev' = [result |-> fillResult, log |-> log, rows |-> rows,
                events |-> events]
    /\ rows' = rows0
    /\ events' = <<>>
    /\ calls' = <<>>
    /\ impl' = "modular"
    /\ run' = run + 1
    /\ pc' = "fill_call"
    /\ UNCHANGED <<config, trigger, dialog, view, table, submit, rows0,
                   dataProvider, i, timeData, filledCount, skippedCount,
                   errorCount, log, fillResult, harnessVars, pipeVars>>

InitBoth ==
    /\ config = DefaultConfig
    /\ trigger = TRUE
    /\ dialog \in {VisibleDialog, NoElement}
    /\ view = dialog
    /\ table \in IF dialog = NoElement THEN {NoElement}
                 ELSE {TableIn("view"), NoElement}
    /\ submit = IF dialog = NoElement THEN NoElement ELSE Button(FALSE)
    /\ rows \in RowSeqs(FillRows, MaxRows)
    /\ rows0 = rows
    /\ impl = "legacy"
    /\ pc = "fill_call"
    /\ dataProvider \in FillProviders
    /\ InitFillVars
    /\ classified = NoResult
    /\ pending = <<>>
    /\ InitPopupVars
    /\ sample = NoResult
    /\ InitPipeVars
    /\ glitch = 0
    /\ waitArgs = EmptyObject

NextBoth == FillPass \/ RowNoData \/ SwitchImplementation

SpecBoth == InitBoth /\ [][NextBoth]_vars

\* no row carries an absence code that the configured mapping has
NoMappedAbsence ==
    \A r \in 1..Len(rows0) :
        \/ rows0[r].missing = NoElement
        \/ rows0[r].missing.value \notin DOMAIN skipRulesOf(config)

\* the working-day rows that were complete when loaded
CompleteWorkingRows ==
    {r \in 1..Len(rows0) :
        /\ parseDateRow(rows0[r]) # Null
        /\ ~legacyShouldSkipDate(parseDateRow(rows0[r])).skip
        /\ isRowComplete(rows0[r])}

BothReturned == pc = "fill_return" /\ impl = "modular" /\ prev # NoResult

\* C38: on the same rows, none with an absence code of the configured
\* mapping, and the same deterministic data source, the legacy and the
\* modular fillTimeInputs leave the same values in every input, dispatch the
\* same events with the same values, and both succeed or both fail; when
\* they succeed they report the same filled count, and the legacy pass
\* reports as errors the complete working rows that the modular pass
\* reports as skipped, the counts being equal otherwise.
C38_LegacyModularAgree ==
    (BothReturned /\ NoMappedAbsence) =>
       /\ rows = prev.rows
       /\ events = prev.events
       /\ fillResult.success = prev.result.success
       /\ fillResult.success =>
            LET modular == fillResult.details
                legacy == prev.result.details
                c == Cardinality(CompleteWorkingRows)
            IN  /\ modular.filled = legacy.filled
                /\ modular.skipped = legacy.skipped + c
                /\ legacy.errors = modular.errors + c

\* a complete working row, then a row that both passes fill
C38_Witness ==
    /\ BothReturned /\ NoMappedAbsence
    /\ Len(rows0) = 2
    /\ CompleteWorkingRows = {1}
    /\ rows # rows0
    /\ rows = prev.rows
    /\ prev.result.details = [filled |-> 1, skipped |-> 0, errors |-> 1]
    /\ fillResult.details = [filled |-> 1, skipped |-> 1, errors |-> 0]

-----------------------------------------------------------------------------
(* The popup's status after a successful response, under SpecPopup.        *)

\* the message that shows the counts the content script reported
ShowsReported(details) ==
    <<[shown |-> "Filled new entries", n |-> details.filled]>>
    \o (IF details.skipped > 0
        THEN <<[shown |-> "skipped non-working days", n |-> details.skipped]>>
        ELSE <<>>)

\* C39: when a response with success = true and details arrives, the popup's
\* status is a success message that shows details.filled as the number of
\* new entries and details.skipped as the number of skipped days, for every
\* combination of counts.
C39_PopupShowsCounts ==
    [][\A c \in 1..MaxClicks, response \in ContentResponses :
          (/\ ResponseArrives(c, response)
           /\ response.success
           /\ Has(response, "details"))
          => /\ popup'.status.type = "success"
             /\ popup'.status.counts = ShowsReported(response.details)]_vars

====
